---- MODULE Spec2Model ----
(***************************************************************************)
(* A model of the kanjilab game-session server: the Session handshake      *)
(* (session_client_actor.rs), the Game directory (game_actor.rs), the Room *)
(* coordinator (room_actor.rs) and its pending-request tracker             *)
(* (pending_tracker.rs).                                                   *)
(*                                                                         *)
(* Every actor handles one message at a time, so a handler is one action.  *)
(* Uuid::new_v4() is modelled by a counter (ticket ids) or, for the        *)
(* correlation id of a notification, by the value 0 that no request uses.  *)
(* Option<T> is the empty sequence (None) or a one-element sequence.       *)
(***************************************************************************)
EXTENDS Integers, Sequences, FiniteSets, TLC

VARIABLES
    sessions,     \* session actor id -> "none" | "alive" | "dead"
    game,         \* GameActor: pending_clients, registered_clients, status
    room,         \* RoomActor: its fields, the PendingTracker map included
    room_status,  \* "running" | "panicked"
    next_ticket,  \* the next id PendingTracker::add draws
    roomInbox,    \* AddClient messages the Game has told the Room, in order
    gameDied,     \* sessions whose link-died signal waits in the Game's mailbox
    roomDied,     \* sessions whose link-died signal waits in the Room's mailbox
    roomLinks,    \* sessions linked to the Room (AddClient links them)
    session,      \* SessionClientActor fields, per session
    next_challenge, \* the next challenge IN_REQ_sendPublicKey draws
    sent,         \* the messages the last handler sent, in order
    trigger,      \* the message the last handler handled
    server,       \* server.rs: STATE, its mutex, and the threads calling the API
    outbound,     \* per connection: Session mailbox, Transport mailbox, bytes written
    mail          \* bounded mailboxes and the send each handler is suspended at

vars == <<sessions, game, room, room_status, next_ticket, roomInbox,
          gameDied, roomDied, roomLinks, session, next_challenge, sent, trigger,
          server, outbound, mail>>

----------------------------------------------------------------------------
(* Bounds of the model *)

NumSessions == 2      \* sessions that join the Room in Spec
MaxTickets == 2       \* tickets PendingTracker::add draws in Spec
RoundTickets == 4     \* tickets PendingTracker::add draws in SpecRounds
StopTickets == 4      \* tickets PendingTracker::add draws in SpecStop
RosterSessions == 4   \* sessions that join the Room in SpecMembers
GameSessions == 2     \* connections in SpecGame
GameTickets == 1      \* tickets in SpecGame
MaxChallenges == 2    \* challenges drawn in SpecGame
MaxRounds == 2
MaxDuration == 1
ElapsedMs == 500
NumThreads == 2       \* threads calling the launch/stop API in SpecServer
MaxLaunches == 3      \* runtimes built in SpecServer
MaxMsgs == 4          \* outbound messages and requests in SpecOutbound
MaxNotifs == 2        \* notifications one Room handler broadcasts in SpecOutbound

Sessions == 1..NumSessions
TicketIds == 1..MaxTickets
ReqCorrIds == {1}
Answers == {"a"}
Keys == {"K1", "K2"}
Names == {"n"}
SettingsChoices ==
    [rounds_count : 0..MaxRounds, round_duration : 1..MaxDuration]

----------------------------------------------------------------------------
(* Option, maps, wire values *)

None == <<>>
Some(x) == <<x>>
is_some(o) == Len(o) > 0
is_none(o) == Len(o) = 0

EmptyMap == [x \in {} |-> x]
MapRemove(f, k) == [x \in DOMAIN f \ {k} |-> f[x]]
MapInsert(f, k, v) == [x \in DOMAIN f \cup {k} |-> IF x = k THEN v ELSE f[x]]

Perms(S) ==
    {f \in [1..Cardinality(S) -> S] : \A i, j \in 1..Cardinality(S) : f[i] = f[j] => i = j}

\* the uuid the Game draws for the connection whose session actor is s
ClientUuid(s) == 10 + s

GameSettingsDefault == [rounds_count |-> 0, round_duration |-> 0]
QuestionInfoDefault == [readings |-> {}]
Questions == {[readings |-> {"a"}], [readings |-> {}]}

\* a message on the wire: the sessions it is told to, tag, correlation id, payload
Msg(to, type, corr, body) == [to |-> to, type |-> type, corr |-> corr, body |-> body]

\* drop the sends that reach nobody (a broadcast in an empty Room)
Sends(ms) == SelectSeq(ms, LAMBDA m : m.to # {})

Trigger(actor, op, s, corr) == [actor |-> actor, op |-> op, session |-> s, corr |-> corr]

----------------------------------------------------------------------------
(* pending_tracker.rs: PendingTracker<RoomActor, RoomPending> *)

\* PendingMeta { kind }: kind is "Question" with the admin's uuid, or "Round"
\* and t_out, the duration (in seconds) of the entry's timer
QuestionTimeout == 5
PendingQuestion(uuid) == [kind |-> "Question", uuid |-> uuid, t_out |-> QuestionTimeout]
PendingRound(dur) == [kind |-> "Round", uuid |-> 0, t_out |-> dur]

\* add: insert the meta under the fresh id (and spawn its timer task, see DoTimeout)
add(map, id, meta) == MapInsert(map, id, meta)

\* variant of take that returns the entry and leaves it in the map
take_peek(map, id) ==
    [meta |-> IF id \in DOMAIN map THEN Some(map[id]) ELSE None,
     map |-> map]

\* take: remove the entry and return it
take(map, id) ==
    [meta |-> IF id \in DOMAIN map THEN Some(map[id]) ELSE None,
     map |-> MapRemove(map, id)]

\* cancel: remove the entry
cancel(map, id) == MapRemove(map, id)

----------------------------------------------------------------------------
(* room_actor.rs: RoomActor helpers. A helper returns the new Room fields  *)
(* (room), the messages it sent (out) and whether it drew a ticket (added). *)

RoomInit ==
    [clients |-> EmptyMap,
     game_settings |-> GameSettingsDefault,
     current_question |-> None,
     current_answers |-> <<>>,
     is_game_running |-> FALSE,
     round_ticket |-> None,
     pending |-> EmptyMap,
     round_start |-> None,
     rounds_played |-> 0]

Result(r, out, added) == [room |-> r, out |-> out, added |-> added]

\* find_client: the member whose session actor is s, if any
find_client(r, s) ==
    IF \E u \in DOMAIN r.clients : r.clients[u].session = s
    THEN Some(CHOOSE u \in DOMAIN r.clients : r.clients[u].session = s)
    ELSE None

MemberSessions(r) == {r.clients[u].session : u \in DOMAIN r.clients}

\* broadcast: tell every member's session
broadcast(r, type, corr, body) == Msg(MemberSessions(r), type, corr, body)

reply_status(s, correlation_id, status) ==
    Msg({s}, "OUT_RESP_status", correlation_id, status)

notif_client_registered(r, client_info) ==
    broadcast(r, "OUT_NOTIF_clientRegistered", 0, client_info)

notif_client_disconnected(r, uuid) ==
    broadcast(r, "OUT_NOTIF_clientDisconnected", 0, uuid)

notif_admin_made(r, uuid) ==
    broadcast(r, "OUT_NOTIF_adminMade", 0, uuid)

unwrap_or_default(q) == IF is_some(q) THEN q[1] ELSE QuestionInfoDefault

AnswerIds(answers) == {answers[i].id : i \in 1..Len(answers)}

\* the orders clients.keys() can yield the members in (HashMap iteration order)
KeyOrders(r) == Perms(DOMAIN r.clients)

\* a variant of push_missing_answers without the `answered` skip
push_missing_answers_unfiltered(r, keys) ==
    LET max_time == r.game_settings.round_duration * 1000
        fill == [i \in 1..Len(keys) |->
                    [id |-> keys[i], answer |-> "", is_correct |-> FALSE,
                     answer_time |-> max_time]]
    IN [r EXCEPT !.current_answers = @ \o fill]

\* push_missing_answers: in keys() order, append an empty answer for each
\* member whose id is not among the answers
push_missing_answers(r, keys) ==
    LET answered == AnswerIds(r.current_answers)
        max_time == r.game_settings.round_duration * 1000
        missing == SelectSeq(keys, LAMBDA u : u \notin answered)
        fill == [i \in 1..Len(missing) |->
                    [id |-> missing[i], answer |-> "", is_correct |-> FALSE,
                     answer_time |-> max_time]]
    IN [r EXCEPT !.current_answers = @ \o fill]

\* the members request_question's find(is_admin) can return
Admins(r) == {u \in DOMAIN r.clients : r.clients[u].is_admin}
AdminChoices(r) == IF Admins(r) = {} THEN {0} ELSE Admins(r)

\* a variant of request_question that asks every member for the question
request_question_of_all(r, admin_uuid, corr_id) ==
    IF Admins(r) = {}
    THEN Result([r EXCEPT !.is_game_running = FALSE], <<>>, FALSE)
    ELSE Result([r EXCEPT !.pending = add(@, corr_id, PendingQuestion(admin_uuid))],
                <<Msg(MemberSessions(r), "OUT_REQ_question", corr_id, "")>>,
                TRUE)

\* request_question: ask the admin for a question under a fresh ticket
request_question(r, admin_uuid, corr_id) ==
    IF Admins(r) = {}
    THEN Result([r EXCEPT !.is_game_running = FALSE], <<>>, FALSE)
    ELSE Result([r EXCEPT !.pending = add(@, corr_id, PendingQuestion(admin_uuid))],
                <<Msg({r.clients[admin_uuid].session}, "OUT_REQ_question", corr_id, "")>>,
                TRUE)

\* a variant of finish_round that skips push_missing_answers
finish_round_without_fill(r, keys, admin_uuid, corr_id) ==
    IF ~r.is_game_running
    THEN Result(r, <<>>, FALSE)
    ELSE
        LET notif == broadcast(r, "OUT_NOTIF_roundEnded", 0,
                               [question |-> unwrap_or_default(r.current_question),
                                answers |-> r.current_answers])
            r2 == [r EXCEPT !.current_question = None,
                            !.current_answers = <<>>,
                            !.round_ticket = None,
                            !.round_start = None,
                            !.rounds_played = @ + 1]
        IN IF r2.rounds_played >= r2.game_settings.rounds_count
           THEN Result([r2 EXCEPT !.is_game_running = FALSE],
                       <<notif,
                         broadcast(r2, "OUT_NOTIF_gameStopped", 0,
                                   [question |-> QuestionInfoDefault, answers |-> <<>>])>>,
                       FALSE)
           ELSE LET q == request_question(r2, admin_uuid, corr_id)
                IN Result(q.room, <<notif>> \o q.out, q.added)

\* a variant of finish_round without the is_game_running guard
finish_round_unguarded(r, keys, admin_uuid, corr_id) ==
    LET r1 == push_missing_answers(r, keys)
        notif == broadcast(r1, "OUT_NOTIF_roundEnded", 0,
                           [question |-> unwrap_or_default(r1.current_question),
                            answers |-> r1.current_answers])
        r2 == [r1 EXCEPT !.current_question = None,
                         !.current_answers = <<>>,
                         !.round_ticket = None,
                         !.round_start = None,
                         !.rounds_played = @ + 1]
    IN IF r2.rounds_played >= r2.game_settings.rounds_count
       THEN Result([r2 EXCEPT !.is_game_running = FALSE],
                   <<notif,
                     broadcast(r2, "OUT_NOTIF_gameStopped", 0,
                               [question |-> QuestionInfoDefault, answers |-> <<>>])>>,
                   FALSE)
       ELSE LET q == request_question(r2, admin_uuid, corr_id)
            IN Result(q.room, <<notif>> \o q.out, q.added)

\* finish_round
finish_round(r, keys, admin_uuid, corr_id) ==
    IF ~r.is_game_running
    THEN Result(r, <<>>, FALSE)
    ELSE
        LET r1 == push_missing_answers(r, keys)
            notif == broadcast(r1, "OUT_NOTIF_roundEnded", 0,
                               [question |-> unwrap_or_default(r1.current_question),
                                answers |-> r1.current_answers])
            r2 == [r1 EXCEPT !.current_question = None,
                             !.current_answers = <<>>,
                             !.round_ticket = None,
                             !.round_start = None,
                             !.rounds_played = @ + 1]
        IN IF r2.rounds_played >= r2.game_settings.rounds_count
           THEN Result([r2 EXCEPT !.is_game_running = FALSE],
                       <<notif,
                         broadcast(r2, "OUT_NOTIF_gameStopped", 0,
                                   [question |-> QuestionInfoDefault, answers |-> <<>>])>>,
                       FALSE)
           ELSE LET q == request_question(r2, admin_uuid, corr_id)
                IN Result(q.room, <<notif>> \o q.out, q.added)

----------------------------------------------------------------------------
(* game_actor.rs: GameActor *)

GameInit ==
    [pending_clients |-> EmptyMap, registered_clients |-> EmptyMap, status |-> "running"]

\* GetClientsInfo: the info of each registered id, in the order of ids
GetClientsInfo(g, ids) ==
    LET known == SelectSeq(ids, LAMBDA u : u \in DOMAIN g.registered_clients)
    IN [i \in 1..Len(known) |-> g.registered_clients[known[i]].info]

\* the uuid under which the session is in a directory, if any
FindBySession(map, s) == {u \in DOMAIN map : map[u].session = s}

----------------------------------------------------------------------------
(* room_actor.rs: the Room's message handlers *)

ClientInfo(g, is_admin) ==
    [id |-> g.id, key |-> g.key, name |-> g.name, is_admin |-> is_admin]

\* Message<AddClient>
AddClient(r, uuid, s, g) ==
    LET is_admin == DOMAIN r.clients = {}
        r1 == [r EXCEPT !.clients = MapInsert(@, uuid, [session |-> s, is_admin |-> is_admin])]
        infos == IF g.status = "running" THEN GetClientsInfo(g, <<uuid>>) ELSE <<>>
    IN IF Len(infos) = 0
       THEN Result(r1, <<>>, FALSE)
       ELSE Result(r1,
                   <<notif_client_registered(r1, ClientInfo(infos[Len(infos)], is_admin)),
                     IF is_admin
                     THEN notif_admin_made(r1, uuid)
                     ELSE broadcast(r1, "OUT_NOTIF_gameSettingsChanged", 0, r1.game_settings)>>,
                   FALSE)

\* the members clients.iter().next() can return after uuid was removed
NewAdminChoices(r, s) ==
    LET c == find_client(r, s)
        rest == IF is_some(c) THEN DOMAIN r.clients \ {c[1]} ELSE {}
    IN IF rest = {} THEN {0} ELSE rest

\* Actor::on_link_died
on_link_died(r, s, new_admin_uuid) ==
    LET c == find_client(r, s)
    IN IF is_none(c)
       THEN Result(r, <<>>, FALSE)
       ELSE
        LET r1 == [r EXCEPT !.clients = MapRemove(@, c[1])]
            gone == notif_client_disconnected(r1, c[1])
        IN IF DOMAIN r1.clients # {} /\ ~r1.clients[new_admin_uuid].is_admin
           THEN LET r2 == [r1 EXCEPT !.clients[new_admin_uuid].is_admin = TRUE]
                IN Result(r2, <<gone, notif_admin_made(r2, new_admin_uuid)>>, FALSE)
           ELSE Result(r1, <<gone>>, FALSE)

\* a variant of the Timeout handler that finishes the round whatever take returns
Timeout_without_match(r, id, keys, admin_uuid, corr_id) ==
    LET t == take(r.pending, id)
        r0 == [r EXCEPT !.pending = t.map]
    IN finish_round([r0 EXCEPT !.round_ticket = None], keys, admin_uuid, corr_id)

\* Message<Timeout>
Timeout(r, id, keys, admin_uuid, corr_id) ==
    LET t == take(r.pending, id)
        r0 == [r EXCEPT !.pending = t.map]
    IN IF is_some(t.meta) /\ t.meta[1].kind = "Round"
       THEN finish_round([r0 EXCEPT !.round_ticket = None], keys, admin_uuid, corr_id)
       ELSE Result(r0, <<>>, FALSE)

\* Message<ClientListRequest>
ClientListRequest(r, s, correlation_id, ids, g) ==
    IF g.status # "running"
    THEN Result(r, <<>>, FALSE)
    ELSE LET game_infos == GetClientsInfo(g, ids)
             clients == [i \in 1..Len(game_infos) |->
                            ClientInfo(game_infos[i], r.clients[game_infos[i].id].is_admin)]
         IN Result(r, <<Msg({s}, "OUT_RESP_clientList", correlation_id, clients)>>, FALSE)

\* a variant of the SetGameSettingsRequest handler without the admin guard
SetGameSettingsRequest_by_anyone(r, s, correlation_id, game_settings) ==
    LET c == find_client(r, s)
    IN IF is_none(c) THEN Result(r, <<>>, FALSE)
       ELSE LET r1 == [r EXCEPT !.game_settings = game_settings]
            IN Result(r1,
                      <<reply_status(s, correlation_id, "success"),
                        broadcast(r1, "OUT_NOTIF_gameSettingsChanged", 0, game_settings)>>,
                      FALSE)

\* Message<SetGameSettingsRequest>
SetGameSettingsRequest(r, s, correlation_id, game_settings) ==
    LET c == find_client(r, s)
    IN IF is_none(c) THEN Result(r, <<>>, FALSE)
       ELSE IF ~r.clients[c[1]].is_admin
       THEN Result(r, <<reply_status(s, correlation_id, "not admin")>>, FALSE)
       ELSE LET r1 == [r EXCEPT !.game_settings = game_settings]
            IN Result(r1,
                      <<reply_status(s, correlation_id, "success"),
                        broadcast(r1, "OUT_NOTIF_gameSettingsChanged", 0, game_settings)>>,
                      FALSE)

\* Message<SendChatRequest>
SendChatRequest(r, s, correlation_id, message) ==
    LET c == find_client(r, s)
    IN IF is_none(c) THEN Result(r, <<>>, FALSE)
       ELSE Result(r,
                   <<reply_status(s, correlation_id, "success"),
                     broadcast(r, "OUT_NOTIF_chatSent", 0, [id |-> c[1], message |-> message])>>,
                   FALSE)

\* a variant of the StartGameRequest handler without the "already running" guard
StartGameRequest_restarting(r, s, correlation_id, game_settings, admin_uuid, corr_id) ==
    LET c == find_client(r, s)
    IN IF is_none(c) THEN Result(r, <<>>, FALSE)
       ELSE IF ~r.clients[c[1]].is_admin
       THEN Result(r, <<reply_status(s, correlation_id, "not admin")>>, FALSE)
       ELSE LET r1 == [r EXCEPT !.current_question = None,
                                !.current_answers = <<>>,
                                !.round_ticket = None,
                                !.game_settings = game_settings,
                                !.is_game_running = TRUE,
                                !.rounds_played = 0]
                q == request_question(r1, admin_uuid, corr_id)
            IN Result(q.room,
                      <<reply_status(s, correlation_id, "success"),
                        broadcast(r1, "OUT_NOTIF_gameStarted", 0, game_settings)>> \o q.out,
                      q.added)

\* Message<StartGameRequest>
StartGameRequest(r, s, correlation_id, game_settings, admin_uuid, corr_id) ==
    LET c == find_client(r, s)
    IN IF is_none(c) THEN Result(r, <<>>, FALSE)
       ELSE IF ~r.clients[c[1]].is_admin
       THEN Result(r, <<reply_status(s, correlation_id, "not admin")>>, FALSE)
       ELSE IF r.is_game_running
       THEN Result(r, <<reply_status(s, correlation_id, "already running")>>, FALSE)
       ELSE LET r1 == [r EXCEPT !.current_question = None,
                                !.current_answers = <<>>,
                                !.round_ticket = None,
                                !.game_settings = game_settings,
                                !.is_game_running = TRUE,
                                !.rounds_played = 0]
                q == request_question(r1, admin_uuid, corr_id)
            IN Result(q.room,
                      <<reply_status(s, correlation_id, "success"),
                        broadcast(r1, "OUT_NOTIF_gameStarted", 0, game_settings)>> \o q.out,
                      q.added)

\* Message<ProvideQuestionResponse>: the match guard indexes clients[&uuid],
\* which panics when the recorded admin is no longer a member
ProvideQuestionResponsePanics(r, correlation_id) ==
    LET t == take(r.pending, correlation_id)
    IN /\ is_some(t.meta)
       /\ t.meta[1].kind = "Question"
       /\ t.meta[1].uuid \notin DOMAIN r.clients

ProvideQuestionResponse(r, s, correlation_id, question_info, question_svg, corr_id) ==
    LET t == take(r.pending, correlation_id)
        r0 == [r EXCEPT !.pending = t.map]
    IN IF /\ is_some(t.meta)
          /\ t.meta[1].kind = "Question"
          /\ t.meta[1].uuid \in DOMAIN r.clients
          /\ s = r.clients[t.meta[1].uuid].session
       THEN LET r1 == [r0 EXCEPT !.current_question = Some(question_info),
                                 !.current_answers = <<>>,
                                 !.round_start = Some("now"),
                                 !.pending = add(@, corr_id,
                                                PendingRound(r.game_settings.round_duration)),
                                 !.round_ticket = Some(corr_id)]
            IN Result(r1, <<broadcast(r1, "OUT_NOTIF_question", 0, question_svg)>>, TRUE)
       ELSE Result(r0, <<>>, FALSE)

\* a variant of the SendAnswerRequest handler that finishes the round without
\* cancelling the round ticket
SendAnswerRequest_keeps_ticket(r, s, correlation_id, answer, elapsed_ms, keys, admin_uuid, corr_id) ==
    LET c == find_client(r, s)
    IN IF is_none(c) THEN Result(r, <<>>, FALSE)
       ELSE IF ~r.is_game_running \/ is_none(r.current_question)
       THEN Result(r, <<reply_status(s, correlation_id, "no active round")>>, FALSE)
       ELSE IF c[1] \in AnswerIds(r.current_answers)
       THEN Result(r, <<reply_status(s, correlation_id, "already answered")>>, FALSE)
       ELSE
        LET elapsed == IF is_some(r.round_start) THEN elapsed_ms ELSE 0
            is_correct == answer \in r.current_question[1].readings
            r1 == [r EXCEPT !.current_answers =
                       Append(@, [id |-> c[1], answer |-> answer,
                                  is_correct |-> is_correct, answer_time |-> elapsed])]
            out == <<reply_status(s, correlation_id, "success"),
                     broadcast(r1, "OUT_NOTIF_clientAnswered", 0, c[1])>>
        IN IF Len(r1.current_answers) = Cardinality(DOMAIN r1.clients)
           THEN LET f == finish_round(r1, keys, admin_uuid, corr_id)
                IN Result(f.room, out \o f.out, f.added)
           ELSE Result(r1, out, FALSE)

\* a variant of the SendAnswerRequest handler without the "already answered" guard
SendAnswerRequest_again(r, s, correlation_id, answer, elapsed_ms, keys, admin_uuid, corr_id) ==
    LET c == find_client(r, s)
    IN IF is_none(c) THEN Result(r, <<>>, FALSE)
       ELSE IF ~r.is_game_running \/ is_none(r.current_question)
       THEN Result(r, <<reply_status(s, correlation_id, "no active round")>>, FALSE)
       ELSE
        LET elapsed == IF is_some(r.round_start) THEN elapsed_ms ELSE 0
            is_correct == answer \in r.current_question[1].readings
            r1 == [r EXCEPT !.current_answers =
                       Append(@, [id |-> c[1], answer |-> answer,
                                  is_correct |-> is_correct, answer_time |-> elapsed])]
            out == <<reply_status(s, correlation_id, "success"),
                     broadcast(r1, "OUT_NOTIF_clientAnswered", 0, c[1])>>
        IN IF Len(r1.current_answers) = Cardinality(DOMAIN r1.clients)
           THEN LET r2 == IF is_some(r1.round_ticket)
                          THEN [r1 EXCEPT !.round_ticket = None,
                                          !.pending = cancel(@, r1.round_ticket[1])]
                          ELSE r1
                    f == finish_round(r2, keys, admin_uuid, corr_id)
                IN Result(f.room, out \o f.out, f.added)
           ELSE Result(r1, out, FALSE)

\* Message<SendAnswerRequest>
SendAnswerRequest(r, s, correlation_id, answer, elapsed_ms, keys, admin_uuid, corr_id) ==
    LET c == find_client(r, s)
    IN IF is_none(c) THEN Result(r, <<>>, FALSE)
       ELSE IF ~r.is_game_running \/ is_none(r.current_question)
       THEN Result(r, <<reply_status(s, correlation_id, "no active round")>>, FALSE)
       ELSE IF c[1] \in AnswerIds(r.current_answers)
       THEN Result(r, <<reply_status(s, correlation_id, "already answered")>>, FALSE)
       ELSE
        LET elapsed == IF is_some(r.round_start) THEN elapsed_ms ELSE 0
            is_correct == answer \in r.current_question[1].readings
            r1 == [r EXCEPT !.current_answers =
                       Append(@, [id |-> c[1], answer |-> answer,
                                  is_correct |-> is_correct, answer_time |-> elapsed])]
            out == <<reply_status(s, correlation_id, "success"),
                     broadcast(r1, "OUT_NOTIF_clientAnswered", 0, c[1])>>
        IN IF Len(r1.current_answers) = Cardinality(DOMAIN r1.clients)
           THEN LET r2 == IF is_some(r1.round_ticket)
                          THEN [r1 EXCEPT !.round_ticket = None,
                                          !.pending = cancel(@, r1.round_ticket[1])]
                          ELSE r1
                    f == finish_round(r2, keys, admin_uuid, corr_id)
                IN Result(f.room, out \o f.out, f.added)
           ELSE Result(r1, out, FALSE)

\* a variant of the StopGameRequest handler that leaves rounds_played as it is
StopGameRequest_keeps_rounds(r, s, correlation_id, keys) ==
    LET c == find_client(r, s)
    IN IF is_none(c) THEN Result(r, <<>>, FALSE)
       ELSE IF ~r.clients[c[1]].is_admin
       THEN Result(r, <<reply_status(s, correlation_id, "not admin")>>, FALSE)
       ELSE IF ~r.is_game_running
       THEN Result(r, <<reply_status(s, correlation_id, "not running")>>, FALSE)
       ELSE
        LET r1 == IF is_some(r.round_ticket)
                  THEN [r EXCEPT !.round_ticket = None,
                                 !.pending = cancel(@, r.round_ticket[1])]
                  ELSE r
            r2 == IF is_some(r1.current_question) THEN push_missing_answers(r1, keys) ELSE r1
            r3 == [r2 EXCEPT !.is_game_running = FALSE,
                             !.current_question = None,
                             !.current_answers = <<>>,
                             !.round_start = None,
                             !.round_ticket = None]
        IN Result(r3,
                  <<reply_status(s, correlation_id, "success"),
                    broadcast(r2, "OUT_NOTIF_gameStopped", 0,
                              [question |-> unwrap_or_default(r2.current_question),
                               answers |-> r2.current_answers])>>,
                  FALSE)

\* Message<StopGameRequest>
StopGameRequest(r, s, correlation_id, keys) ==
    LET c == find_client(r, s)
    IN IF is_none(c) THEN Result(r, <<>>, FALSE)
       ELSE IF ~r.clients[c[1]].is_admin
       THEN Result(r, <<reply_status(s, correlation_id, "not admin")>>, FALSE)
       ELSE IF ~r.is_game_running
       THEN Result(r, <<reply_status(s, correlation_id, "not running")>>, FALSE)
       ELSE
        LET r1 == IF is_some(r.round_ticket)
                  THEN [r EXCEPT !.round_ticket = None,
                                 !.pending = cancel(@, r.round_ticket[1])]
                  ELSE r
            r2 == IF is_some(r1.current_question) THEN push_missing_answers(r1, keys) ELSE r1
            r3 == [r2 EXCEPT !.is_game_running = FALSE,
                             !.current_question = None,
                             !.current_answers = <<>>,
                             !.round_start = None,
                             !.round_ticket = None,
                             !.rounds_played = 0]
        IN Result(r3,
                  <<reply_status(s, correlation_id, "success"),
                    broadcast(r2, "OUT_NOTIF_gameStopped", 0,
                              [question |-> unwrap_or_default(r2.current_question),
                               answers |-> r2.current_answers])>>,
                  FALSE)

----------------------------------------------------------------------------
(* game_actor.rs: the Game's message handlers. A handler returns the new   *)
(* Game fields (game), the messages it sent (out) and the AddClient it     *)
(* told the Room (add_client, an Option).                                  *)

GameResult(g, out, add_client) == [game |-> g, out |-> out, add_client |-> add_client]

\* Message<NewClient> / spawn_client: a fresh uuid for the new session, into pending
NewClient(g, s) ==
    [g EXCEPT !.pending_clients = MapInsert(@, ClientUuid(s), [session |-> s])]

\* a variant of the RegisterClientRequest handler that leaves the session in pending
RegisterClientRequest_keeps_pending(g, s, name, pub_key, correlation_id) ==
    LET found == FindBySession(g.pending_clients, s)
    IN IF found = {}
       THEN GameResult(g, <<>>, None)
       ELSE
        LET uuid == CHOOSE u \in found : TRUE
            g1 == [g EXCEPT !.registered_clients =
                                MapInsert(@, uuid,
                                    [session |-> s,
                                     info |-> [id |-> uuid, key |-> pub_key, name |-> name]])]
        IN GameResult(g1,
                      <<Msg({s}, "SetRoom", 0, ""),
                        Msg({s}, "OUT_RESP_clientRegistered", correlation_id,
                            [id |-> uuid, game_settings |-> GameSettingsDefault])>>,
                      Some([uuid |-> uuid, session |-> s]))

\* Message<RegisterClientRequest>
RegisterClientRequest(g, s, name, pub_key, correlation_id) ==
    LET found == FindBySession(g.pending_clients, s)
    IN IF found = {}
       THEN GameResult(g, <<>>, None)
       ELSE
        LET uuid == CHOOSE u \in found : TRUE
            g1 == [g EXCEPT !.pending_clients = MapRemove(@, uuid),
                            !.registered_clients =
                                MapInsert(@, uuid,
                                    [session |-> s,
                                     info |-> [id |-> uuid, key |-> pub_key, name |-> name]])]
        IN GameResult(g1,
                      <<Msg({s}, "SetRoom", 0, ""),
                        Msg({s}, "OUT_RESP_clientRegistered", correlation_id,
                            [id |-> uuid, game_settings |-> GameSettingsDefault])>>,
                      Some([uuid |-> uuid, session |-> s]))

\* Actor::on_link_died for a session: drop it from pending, else from registered
game_on_link_died(g, s) ==
    LET p == FindBySession(g.pending_clients, s)
        q == FindBySession(g.registered_clients, s)
    IN IF p # {}
       THEN [g EXCEPT !.pending_clients = MapRemove(@, CHOOSE u \in p : TRUE)]
       ELSE IF q # {}
       THEN [g EXCEPT !.registered_clients = MapRemove(@, CHOOSE u \in q : TRUE)]
       ELSE g

----------------------------------------------------------------------------
(* session_client_actor.rs: SessionClientActor. The transport is set by  *)
(* SetTransport before the connection's stream is attached, so every send  *)
(* reaches the client. A handler returns the new fields (session) and the  *)
(* messages it sent (out), the requests it tells the Game or Room included. *)

\* the addresses of the Game and the Room among the receivers of a message
GameActor == 100
RoomActor == 101

SessionInit ==
    [pub_key |-> None, sign_challenge |-> None, signature_verified |-> FALSE,
     room |-> FALSE]

SessResult(ss, out) == [session |-> ss, out |-> out]

\* what a client can send as a signature: a signature by a key over a
\* message, text that is not base64, or base64 of the wrong length
Signatures ==
    [kind : {"signed"}, key : Keys, message : 1..MaxChallenges]
        \cup [kind : {"malformed", "short"}, key : {"K1"}, message : {0}]

\* tools.rs verify_signature: Ok(bool), Err, or the panic of
\* try_into().unwrap() on a decoded value of the wrong length
verify_signature(message, signature, key) ==
    IF signature.kind = "malformed" THEN "err"
    ELSE IF signature.kind = "short" THEN "panic"
    ELSE IF signature.key = key /\ signature.message = message THEN "true"
    ELSE "false"

\* a variant of send_status that answers under a fresh correlation id
send_status_fresh(s, correlation_id, status) ==
    Msg({s}, "OUT_RESP_status", 0, status)

send_status(s, correlation_id, status) ==
    Msg({s}, "OUT_RESP_status", correlation_id, status)

\* a variant of InReqSendPublicKey that keeps the key and challenge of a
\* verified session
InReqSendPublicKey_once(ss, s, correlation_id, key, challenge) ==
    IF ss.signature_verified
    THEN SessResult(ss, <<send_status(s, correlation_id, "signature already verified"),
                          Msg({s}, "OUT_RESP_signMessage", correlation_id, challenge)>>)
    ELSE SessResult([ss EXCEPT !.pub_key = Some(key), !.sign_challenge = Some(challenge)],
                    <<Msg({s}, "OUT_RESP_signMessage", correlation_id, challenge)>>)

\* TransportMsg::InReqSendPublicKey
InReqSendPublicKey(ss, s, correlation_id, key, challenge) ==
    SessResult([ss EXCEPT !.pub_key = Some(key), !.sign_challenge = Some(challenge)],
               (IF ss.signature_verified
                THEN <<send_status(s, correlation_id, "signature already verified")>>
                ELSE <<>>)
               \o <<Msg({s}, "OUT_RESP_signMessage", correlation_id, challenge)>>)

\* TransportMsg::InReqVerifySignature, when verify_signature returns
InReqVerifySignature(ss, s, correlation_id, signature) ==
    IF is_none(ss.sign_challenge)
    THEN SessResult(ss, <<send_status(s, correlation_id, "no stored challenges")>>)
    ELSE IF is_none(ss.pub_key)
    THEN SessResult(ss, <<send_status(s, correlation_id, "no public key")>>)
    ELSE LET v == verify_signature(ss.sign_challenge[1], signature, ss.pub_key[1])
             is_ok == v = "true"
         IN SessResult([ss EXCEPT !.signature_verified = is_ok],
                       (IF v = "err" THEN <<send_status(s, correlation_id, "error")>>
                        ELSE <<>>)
                       \o <<Msg({s}, "OUT_RESP_status", correlation_id,
                                IF is_ok THEN "success" ELSE "error")>>)

\* the handler reaches verify_signature and that panics: the session stops
InReqVerifySignaturePanics(ss, signature) ==
    /\ is_some(ss.sign_challenge)
    /\ is_some(ss.pub_key)
    /\ verify_signature(ss.sign_challenge[1], signature, ss.pub_key[1]) = "panic"

\* a variant of InReqRegisterClient without the signature_verified guard
InReqRegisterClient_unguarded(ss, s, correlation_id, name, game_alive) ==
    IF ~game_alive
    THEN SessResult(ss, <<send_status(s, correlation_id, "error")>>)
    ELSE IF is_none(ss.pub_key)
    THEN SessResult(ss, <<send_status(s, correlation_id, "no public key")>>)
    ELSE SessResult(ss, <<Msg({GameActor}, "RegisterClientRequest", correlation_id,
                              [session |-> s, name |-> name, pub_key |-> ss.pub_key[1]])>>)

\* TransportMsg::InReqRegisterClient
InReqRegisterClient(ss, s, correlation_id, name, game_alive) ==
    IF ~ss.signature_verified
    THEN SessResult(ss, <<send_status(s, correlation_id, "error")>>)
    ELSE IF ~game_alive
    THEN SessResult(ss, <<send_status(s, correlation_id, "error")>>)
    ELSE IF is_none(ss.pub_key)
    THEN SessResult(ss, <<send_status(s, correlation_id, "no public key")>>)
    ELSE SessResult(ss, <<Msg({GameActor}, "RegisterClientRequest", correlation_id,
                              [session |-> s, name |-> name, pub_key |-> ss.pub_key[1]])>>)

\* the room-scoped requests (InReqClientList, InReqSendGameSettings,
\* InReqSendChat, InReqStartGame, InReqSendAnswer, InReqStopGame): tell the
\* Room when the session has one and it is alive, else answer "no room"
InReqRoomScoped(ss, s, correlation_id, request, payload, room_alive) ==
    IF ss.room /\ room_alive
    THEN SessResult(ss, <<Msg({RoomActor}, request, correlation_id,
                              [requester |-> s, payload |-> payload])>>)
    ELSE SessResult(ss, <<send_status(s, correlation_id, "no room")>>)

\* TransportMsg::InRespQuestion: as above, but silent without a room
InRespQuestion(ss, s, correlation_id, question_info, room_alive) ==
    IF ss.room /\ room_alive
    THEN SessResult(ss, <<Msg({RoomActor}, "ProvideQuestionResponse", correlation_id,
                              [requester |-> s, payload |-> question_info])>>)
    ELSE SessResult(ss, <<>>)

\* Message<SetRoom>
SetRoom(ss) == [ss EXCEPT !.room = TRUE]

----------------------------------------------------------------------------
(* The outbound path of a connection: the Room (or Game) tells the Session *)
(* SendWs, the Session tells its Transport ToTransport, the Transport      *)
(* writes to the WebSocket sink. A client's request comes the other way    *)
(* into the Session's mailbox and its reply goes out by the same send. A   *)
(* message is the number drawn when it was emitted; `delivered` keeps, per *)
(* connection, the order in which they were put into the Session's mailbox.*)

\* the connections whose outbound paths are followed
Conns == {1, 2}

OutboundInit ==
    [mailbox |-> [s \in Conns |-> <<>>],
     transport |-> [s \in Conns |-> <<>>],
     wire |-> [s \in Conns |-> <<>>],
     delivered |-> [s \in Conns |-> <<>>],
     next_msg |-> 1]

\* a variant of tell that puts the message at the front of the mailbox
tell_front(box, msg) == <<msg>> \o box

\* ActorRef::tell: the message goes to the end of the receiver's mailbox
tell(box, msg) == Append(box, msg)

\* RoomActor::broadcast: SendWs(ws) told to each member's session
broadcast_SendWs(ob, members, id) ==
    [ob EXCEPT
        !.mailbox = [s \in Conns |->
                        IF s \in members
                        THEN tell(ob.mailbox[s], [kind |-> "SendWs", id |-> id])
                        ELSE ob.mailbox[s]],
        !.delivered = [s \in Conns |->
                        IF s \in members THEN Append(ob.delivered[s], id)
                        ELSE ob.delivered[s]]]

\* a Room handler that broadcasts k notifications, one after the other
RECURSIVE emit(_, _, _, _)
emit(ob, members, id, k) ==
    IF k = 0 THEN ob
    ELSE emit(broadcast_SendWs(ob, members, id), members, id + 1, k - 1)

\* WebSocketClientActor::send_to_session: a parsed request told to the Session
send_to_session(ob, s, id) ==
    [ob EXCEPT !.mailbox[s] = tell(@, [kind |-> "TransportMsg", id |-> id]),
               !.delivered[s] = Append(@, id)]

\* Message<SendWs> and the replies of Message<TransportMsg>: self.send tells
\* the Transport the message (SendWs) or the reply (a request)
session_send(ob, s) ==
    [ob EXCEPT !.mailbox[s] = Tail(@),
               !.transport[s] = tell(@, Head(ob.mailbox[s]).id)]

\* Message<ToTransport>: write.send, whose failure is ignored
transport_write(ob, s, ok) ==
    [ob EXCEPT !.transport[s] = Tail(@),
               !.wire[s] = IF ok THEN Append(@, Head(ob.transport[s])) ELSE @]

----------------------------------------------------------------------------
(* server.rs: the process-wide launch/stop API. STATE is a                  *)
(* OnceLock<Mutex<Option<ServerState>>>: `init` is whether the OnceLock is  *)
(* set, `slot` the Option, `guard` the thread that holds the mutex (0: none). *)
(* A ServerState owns the runtime its server runs on; `runtimes` are the   *)
(* runtimes that have been built and not dropped. Threads call the API     *)
(* concurrently; `pc` is where each one is and `ret` what its last call    *)
(* returned.                                                               *)

Threads == 1..NumThreads

NoReturn == [call |-> "none", result |-> "none"]

ServerInit ==
    [init |-> FALSE, slot |-> None, guard |-> 0, runtimes |-> {}, next_rt |-> 1,
     pc |-> [t \in Threads |-> "idle"],
     rt |-> [t \in Threads |-> 0],
     ret |-> [t \in Threads |-> NoReturn]]

\* the call returns: the guard, if held, is dropped
Return(sv, t, call, result) ==
    [sv EXCEPT !.pc[t] = "idle",
               !.guard = IF @ = t THEN 0 ELSE @,
               !.ret[t] = [call |-> call, result |-> result]]

\* a variant of launch_locked without the `guard.is_some()` check
launch_locked_unchecked(sv, t, built) ==
    IF ~built
    THEN Return(sv, t, "launch", "build error")
    ELSE [sv EXCEPT !.runtimes = @ \cup {sv.next_rt},
                    !.rt[t] = sv.next_rt,
                    !.next_rt = @ + 1,
                    !.pc[t] = "launch_built"]

\* call_launch_server with the mutex held: fail when a server is recorded,
\* else build the runtime (which can fail) and spawn the listener on it
launch_locked(sv, t, built) ==
    IF is_some(sv.slot)
    THEN Return(sv, t, "launch", "server already running")
    ELSE IF ~built
    THEN Return(sv, t, "launch", "build error")
    ELSE [sv EXCEPT !.runtimes = @ \cup {sv.next_rt},
                    !.rt[t] = sv.next_rt,
                    !.next_rt = @ + 1,
                    !.pc[t] = "launch_built"]

\* *guard = Some(ServerState { stop_tx, _rt: rt }); Ok(())
launch_store(sv, t) ==
    Return([sv EXCEPT !.slot = Some(sv.rt[t])], t, "launch", "Ok")

\* call_stop_server with the mutex held: guard.take(), drop the runtime of the
\* ServerState taken, send on stop_tx
stop_locked(sv, t) ==
    IF is_none(sv.slot)
    THEN Return(sv, t, "stop", "server is not running")
    ELSE Return([sv EXCEPT !.slot = None, !.runtimes = @ \ {sv.slot[1]}],
                t, "stop", "Ok")

----------------------------------------------------------------------------
(* Bounded mailboxes. A handler is a sequence of sends: tell(..).await      *)
(* suspends the handler while the receiver's mailbox is full, and           *)
(* ask(..).await suspends it until the receiver has handled the message.    *)
(* An actor takes its next message when its handler has returned.           *)

MailboxCap == 1

Actors == Sessions \cup {GameActor, RoomActor}

Mail(type, s) == [type |-> type, session |-> s]

Tell(to, m) == [op |-> "tell", to |-> to, msg |-> m]
Ask(to, m) == [op |-> "ask", to |-> to, msg |-> m]

\* box: the mailbox of each actor; todo: the sends its running handler has
\* still to make; awaiting: the Room waits for the reply to its ask;
\* connected: sessions the listener accepted; pending, registered: the Game's
\* client maps; members: the Room's clients; has_room: Session::room
MailInit ==
    [box |-> [a \in Actors |-> <<>>],
     todo |-> [a \in Actors |-> <<>>],
     awaiting |-> FALSE,
     connected |-> {},
     pending |-> {},
     registered |-> {},
     members |-> {},
     has_room |-> {}]

Full(m, a) == Len(m.box[a]) >= MailboxCap

Returned(m, a) == m.todo[a] = <<>> /\ ~(a = RoomActor /\ m.awaiting)

\* RoomActor::broadcast: tell SendWs to each client, in the map's order
mail_broadcast(order) == [i \in 1..Len(order) |-> Tell(order[i], Mail("SendWs", order[i]))]

\* the requests a client writes to its connection
ClientRequestTypes == {"IN_REQ_registerClient", "IN_REQ_sendChat", "IN_REQ_clientList"}

\* the handlers of SessionClientActor: what they store and the sends they make
session_handle(m, s, msg) ==
    IF msg.type = "SetRoom"
    THEN [m EXCEPT !.has_room = @ \cup {s}]
    ELSE IF msg.type = "IN_REQ_registerClient"
    THEN [m EXCEPT !.todo[s] = <<Tell(GameActor, Mail("RegisterClientRequest", s))>>]
    ELSE IF msg.type = "IN_REQ_sendChat" /\ s \in m.has_room
    THEN [m EXCEPT !.todo[s] = <<Tell(RoomActor, Mail("SendChatRequest", s))>>]
    ELSE IF msg.type = "IN_REQ_clientList" /\ s \in m.has_room
    THEN [m EXCEPT !.todo[s] = <<Tell(RoomActor, Mail("ClientListRequest", s))>>]
    ELSE m

\* the handlers of GameActor
game_handle(m, msg) ==
    LET s == msg.session
    IN IF msg.type = "NewClient"
       THEN [m EXCEPT !.pending = @ \cup {s},
                      !.todo[GameActor] = <<Tell(s, Mail("SetTransport", s))>>]
       ELSE IF msg.type = "RegisterClientRequest" /\ s \in m.pending
       THEN [m EXCEPT !.pending = @ \ {s},
                      !.registered = @ \cup {s},
                      !.todo[GameActor] = <<Tell(RoomActor, Mail("AddClient", s)),
                                            Tell(s, Mail("SetRoom", s)),
                                            Tell(s, Mail("SendWs", s))>>]
       ELSE IF msg.type = "GetClientsInfo"
       THEN [m EXCEPT !.awaiting = FALSE]
       ELSE m

\* the handlers of RoomActor; order is the iteration order of clients
room_handle(m, msg, order) ==
    LET s == msg.session
        get == Ask(GameActor, Mail("GetClientsInfo", s))
    IN IF msg.type = "AddClient"
       THEN [m EXCEPT !.members = @ \cup {s},
                      !.todo[RoomActor] = <<get>> \o mail_broadcast(order)]
       ELSE IF msg.type = "ClientListRequest"
       THEN [m EXCEPT !.todo[RoomActor] = <<get, Tell(s, Mail("SendWs", s))>>]
       ELSE IF msg.type = "SendChatRequest" /\ s \in m.members
       THEN [m EXCEPT !.todo[RoomActor] =
                        <<Tell(s, Mail("SendWs", s))>> \o mail_broadcast(order)]
       ELSE m

\* the actor takes the first message of its mailbox and runs its handler up
\* to the first send
mail_take(m, a, order) ==
    LET msg == Head(m.box[a])
        m1 == [m EXCEPT !.box[a] = Tail(@)]
    IN IF a = GameActor THEN game_handle(m1, msg)
       ELSE IF a = RoomActor THEN room_handle(m1, msg, order)
       ELSE session_handle(m1, a, msg)

\* the send a handler is suspended at goes through: the message is queued,
\* and an ask leaves the handler waiting for the reply
mail_send(m, a) ==
    LET send == Head(m.todo[a])
    IN [m EXCEPT !.box[send.to] = Append(@, send.msg),
                 !.todo[a] = Tail(@),
                 !.awaiting = IF send.op = "ask" THEN TRUE ELSE @]

----------------------------------------------------------------------------
(* The state after construction: the Game and its Room are started, no     *)
(* client has connected.                                                   *)

NoTrigger == Trigger("none", "none", 0, 0)

InitWith(S) ==
    /\ sessions = [s \in S |-> "none"]
    /\ game = GameInit
    /\ room = RoomInit
    /\ room_status = "running"
    /\ next_ticket = 1
    /\ roomInbox = <<>>
    /\ gameDied = {}
    /\ roomDied = {}
    /\ roomLinks = {}
    /\ session = [s \in S |-> SessionInit]
    /\ next_challenge = 1
    /\ sent = <<>>
    /\ trigger = NoTrigger
    /\ server = ServerInit
    /\ outbound = OutboundInit
    /\ mail = MailInit

Init == InitWith(Sessions)

\* a handler starts when what the previous one sent has been taken off (Deliver)
Quiet == sent = <<>> /\ trigger = NoTrigger

GameRunning == Quiet /\ game.status = "running"
RoomRunning == Quiet /\ room_status = "running"

\* the sessions the last handler told SetRoom
ToldSetRoom == {s \in DOMAIN session :
                  \E i \in 1..Len(sent) : sent[i].type = "SetRoom" /\ sent[i].to = {s}}

\* the sessions told by the last handler take its messages off their
\* mailboxes: SetRoom is handled, the rest is passed on to the client
Deliver ==
    /\ ~Quiet
    /\ \A i \in 1..Len(sent) : sent[i].to \notin {{GameActor}, {RoomActor}}
    /\ session' = [s \in DOMAIN session |->
                     IF s \in ToldSetRoom THEN SetRoom(session[s]) ELSE session[s]]
    /\ sent' = <<>>
    /\ trigger' = NoTrigger
    /\ UNCHANGED <<server, outbound, mail, sessions, game, room, room_status, next_ticket, roomInbox,
                   gameDied, roomDied, roomLinks, next_challenge>>

\* the Room ends a handler: its fields, what it sent and the ticket it drew,
\* of at most max_tickets
RoomStep(res, trig, max_tickets) ==
    /\ res.added => next_ticket <= max_tickets
    /\ room' = res.room
    /\ sent' = Sends(res.out)
    /\ trigger' = trig
    /\ next_ticket' = IF res.added THEN next_ticket + 1 ELSE next_ticket

\* a request of session s can be in the Room's mailbox: the mailbox is FIFO, the
\* Game tells AddClient before SetRoom, and link-died follows the session's messages
FromMember(s) == s \in MemberSessions(room)

----------------------------------------------------------------------------
(* The Room's handlers of client requests and timeouts, as actions *)

\* the timer task that add spawned for ticket id delivers Timeout(id). A ticket
\* id is never drawn twice, so a second delivery of the same id would find the
\* entry absent exactly as a late one does: the armed timers are not kept.
RoomTimeout(id, mt) ==
    /\ \E keys \in KeyOrders(room), a \in AdminChoices(room) :
        RoomStep(Timeout(room, id, keys, a, next_ticket),
                 Trigger("Room", "Timeout", 0, id), mt)

RoomClientList(s, c, g) ==
    /\ \E ids \in KeyOrders(room) :
        RoomStep(ClientListRequest(room, s, c, ids, g),
                 Trigger("Room", "ClientListRequest", s, c), 0)

RoomSetGameSettings(s, c, gs) ==
    /\ RoomStep(SetGameSettingsRequest(room, s, c, gs),
                Trigger("Room", "SetGameSettingsRequest", s, c), 0)

RoomSendChat(s, c, message) ==
    /\ RoomStep(SendChatRequest(room, s, c, message),
                Trigger("Room", "SendChatRequest", s, c), 0)

RoomStartGame(s, c, gs, mt) ==
    /\ \E a \in AdminChoices(room) :
        RoomStep(StartGameRequest(room, s, c, gs, a, next_ticket),
                 Trigger("Room", "StartGameRequest", s, c), mt)

\* the handler panics when the pending entry's admin has left: the actor stops
RoomQuestionResponse(s, c, q, mt) ==
    /\ IF ProvideQuestionResponsePanics(room, c)
       THEN /\ room_status' = "panicked"
            /\ room' = [room EXCEPT !.pending = take(room.pending, c).map]
            /\ sent' = <<>>
            /\ trigger' = Trigger("Room", "ProvideQuestionResponse", s, c)
            /\ UNCHANGED next_ticket
       ELSE /\ RoomStep(ProvideQuestionResponse(room, s, c, q, "svg", next_ticket),
                        Trigger("Room", "ProvideQuestionResponse", s, c), mt)
            /\ UNCHANGED room_status

RoomSendAnswer(s, c, answer, mt) ==
    /\ \E keys \in KeyOrders(room), a \in AdminChoices(room) :
        RoomStep(SendAnswerRequest(room, s, c, answer, ElapsedMs, keys, a, next_ticket),
                 Trigger("Room", "SendAnswerRequest", s, c), mt)

RoomStopGame(s, c) ==
    /\ \E keys \in KeyOrders(room) :
        RoomStep(StopGameRequest(room, s, c, keys),
                 Trigger("Room", "StopGameRequest", s, c), 0)

----------------------------------------------------------------------------
(* Spec: the Room and its pending tracker. The Game is the Room's          *)
(* environment: it tells AddClient for one new session after the other and *)
(* answers GetClientsInfo from a directory that knows the asked uuid or,   *)
(* when that session's death was handled first, does not.                  *)

GameKnowing(uuids) ==
    [GameInit EXCEPT !.registered_clients =
        [u \in uuids |-> [session |-> u - 10,
                          info |-> [id |-> u, key |-> "K1", name |-> "n"]]]]

OtherVars == <<game, roomInbox, gameDied, roomDied, roomLinks, session, next_challenge,
               server, outbound, mail>>

DoAddClient(S) ==
    /\ RoomRunning
    /\ \E s \in S, known \in BOOLEAN :
        /\ sessions[s] = "none"
        /\ \A t \in S : t < s => sessions[t] # "none"
        /\ sessions' = [sessions EXCEPT ![s] = "alive"]
        /\ RoomStep(AddClient(room, ClientUuid(s), s,
                              GameKnowing(IF known THEN {ClientUuid(s)} ELSE {})),
                    Trigger("Room", "AddClient", s, 0), 0)
    /\ UNCHANGED <<room_status, OtherVars>>

\* a member's session has stopped and its link-died signal reaches the Room
DoLinkDied(S) ==
    /\ RoomRunning
    /\ \E s \in S :
        /\ FromMember(s)
        /\ sessions' = [sessions EXCEPT ![s] = "dead"]
        /\ \E a \in NewAdminChoices(room, s) :
            RoomStep(on_link_died(room, s, a), Trigger("Room", "on_link_died", s, 0), 0)
    /\ UNCHANGED <<room_status, OtherVars>>

DoTimeout(mt) ==
    /\ RoomRunning
    /\ \E id \in 1..(next_ticket - 1) : RoomTimeout(id, mt)
    /\ UNCHANGED <<sessions, room_status, OtherVars>>

DoSetGameSettings ==
    /\ \E s \in Sessions, c \in ReqCorrIds, gs \in SettingsChoices :
        RoomRunning /\ FromMember(s) /\ RoomSetGameSettings(s, c, gs)
    /\ UNCHANGED <<sessions, room_status, OtherVars>>

DoStartGame(mt) ==
    /\ \E s \in Sessions, c \in ReqCorrIds, gs \in SettingsChoices :
        RoomRunning /\ FromMember(s) /\ RoomStartGame(s, c, gs, mt)
    /\ UNCHANGED <<sessions, room_status, OtherVars>>

DoQuestionResponse(mt) ==
    /\ \E s \in Sessions, c \in 1..mt, q \in Questions :
        RoomRunning /\ FromMember(s) /\ RoomQuestionResponse(s, c, q, mt)
    /\ UNCHANGED <<sessions, OtherVars>>

DoSendAnswer(mt) ==
    /\ \E s \in Sessions, c \in ReqCorrIds, answer \in Answers :
        RoomRunning /\ FromMember(s) /\ RoomSendAnswer(s, c, answer, mt)
    /\ UNCHANGED <<sessions, room_status, OtherVars>>

DoStopGame ==
    /\ \E s \in Sessions, c \in ReqCorrIds : RoomRunning /\ FromMember(s) /\ RoomStopGame(s, c)
    /\ UNCHANGED <<sessions, room_status, OtherVars>>

Next ==
    \/ DoAddClient(Sessions)
    \/ DoLinkDied(Sessions)
    \/ DoTimeout(MaxTickets)
    \/ DoSetGameSettings
    \/ DoStartGame(MaxTickets)
    \/ DoQuestionResponse(MaxTickets)
    \/ DoSendAnswer(MaxTickets)
    \/ DoStopGame
    \/ Deliver

Spec == Init /\ [][Next]_vars

----------------------------------------------------------------------------
(* SpecRounds: the games the Room plays to their end. The admin's settings  *)
(* are those of StartGame and no StopGame is sent, so a game ends when      *)
(* finish_round finds rounds_played at rounds_count; tickets suffice for    *)
(* the questions and rounds of a game of MaxRounds rounds.                  *)

NextRounds ==
    \/ DoAddClient(Sessions)
    \/ DoLinkDied(Sessions)
    \/ DoTimeout(RoundTickets)
    \/ DoStartGame(RoundTickets)
    \/ DoQuestionResponse(RoundTickets)
    \/ DoSendAnswer(RoundTickets)
    \/ Deliver

SpecRounds == Init /\ [][NextRounds]_vars

----------------------------------------------------------------------------
(* SpecStop: the games the Room plays and the admin stops, with tickets for *)
(* a game stopped in its second round.                                      *)

NextStop ==
    \/ DoAddClient(Sessions)
    \/ DoLinkDied(Sessions)
    \/ DoTimeout(StopTickets)
    \/ DoStartGame(StopTickets)
    \/ DoQuestionResponse(StopTickets)
    \/ DoSendAnswer(StopTickets)
    \/ DoStopGame
    \/ Deliver

SpecStop == Init /\ [][NextStop]_vars

----------------------------------------------------------------------------
(* SpecMembers: the Room's membership alone, clients joining and leaving *)

MSessions == 1..RosterSessions

InitMembers == InitWith(MSessions)

NextMembers ==
    \/ DoAddClient(MSessions)
    \/ DoLinkDied(MSessions)
    \/ Deliver

SpecMembers == InitMembers /\ [][NextMembers]_vars

----------------------------------------------------------------------------
(* SpecGame: the connections. Clients connect, shake hands with their      *)
(* Session, register with the Game, join the Room and send it requests;    *)
(* connections close at any time. The request a Session tells the Game or  *)
(* the Room waits in `sent` and is the next message handled: a Session's   *)
(* handlers change its own fields only, so they commute with what the Game *)
(* or Room would handle in between. roomInbox holds the AddClient messages *)
(* the Game told the Room; a request a Session tells the Room follows the  *)
(* AddClient for that session in the Room's mailbox.                       *)

GSessions == 1..GameSessions
SessionCorrIds == {1, 2}
GameSettingsChoices == {[rounds_count |-> 1, round_duration |-> 1]}

InitGame == InitWith(GSessions)

RoomVars == <<room, room_status, next_ticket, roomDied, roomLinks>>
GameVars == <<sessions, game, gameDied, session, next_challenge>>

\* Message<NewClient>: the listener hands the Game a new connection
Connect ==
    /\ GameRunning
    /\ \E s \in GSessions :
        /\ sessions[s] = "none"
        /\ \A t \in GSessions : t < s => sessions[t] # "none"
        /\ sessions' = [sessions EXCEPT ![s] = "alive"]
        /\ game' = NewClient(game, s)
        /\ trigger' = Trigger("Game", "NewClient", s, 0)
    /\ sent' = <<>>
    /\ UNCHANGED <<server, outbound, mail, RoomVars, roomInbox, gameDied, session, next_challenge>>

\* the session actor s stops: its links are signalled
Stops(s) ==
    /\ sessions' = [sessions EXCEPT ![s] = "dead"]
    /\ gameDied' = gameDied \cup {s}
    /\ roomDied' = roomDied \cup ({s} \cap roomLinks)

\* the connection closes: its transport stops and with it the linked session
SessionStops ==
    /\ Quiet
    /\ \E s \in GSessions : sessions[s] = "alive" /\ Stops(s)
    /\ UNCHANGED <<server, outbound, mail, game, room, room_status, next_ticket, roomInbox, roomLinks,
                   session, next_challenge, sent, trigger>>

\* GameActor::on_link_died for a session
GameOnLinkDied ==
    /\ GameRunning
    /\ \E s \in gameDied :
        /\ game' = game_on_link_died(game, s)
        /\ gameDied' = gameDied \ {s}
        /\ trigger' = Trigger("Game", "on_link_died", s, 0)
    /\ sent' = <<>>
    /\ UNCHANGED <<server, outbound, mail, RoomVars, sessions, roomInbox, session, next_challenge>>

\* GameActor::on_link_died for the Room that panicked: not a client and not
\* Normal, so the Game stops
GameOnRoomDied ==
    /\ GameRunning
    /\ room_status = "panicked"
    /\ game' = [game EXCEPT !.status = "stopped"]
    /\ trigger' = Trigger("Game", "on_link_died", 0, 0)
    /\ sent' = <<>>
    /\ UNCHANGED <<server, outbound, mail, RoomVars, sessions, gameDied, roomInbox, session, next_challenge>>

\* the AddClient for session s is still in the Room's mailbox
AddClientWaits(s) == \E i \in 1..Len(roomInbox) : roomInbox[i].body.requester = s

\* a Session ends a handler
SessionStep(s, res, trig) ==
    /\ (\E i \in 1..Len(res.out) : res.out[i].to = {RoomActor}) => ~AddClientWaits(s)
    /\ session' = [session EXCEPT ![s] = res.session]
    /\ sent' = res.out
    /\ trigger' = trig

\* a message of client s reaches its Session
FromClient(s) == Quiet /\ sessions[s] = "alive"

RoomAlive == room_status = "running"

SendPublicKey ==
    /\ next_challenge <= MaxChallenges
    /\ \E s \in GSessions, c \in SessionCorrIds, key \in Keys :
        /\ FromClient(s)
        /\ SessionStep(s, InReqSendPublicKey(session[s], s, c, key, next_challenge),
                       Trigger("Session", "InReqSendPublicKey", s, c))
    /\ next_challenge' = next_challenge + 1
    /\ UNCHANGED <<server, outbound, mail, RoomVars, sessions, game, gameDied, roomInbox>>

VerifySignature ==
    /\ \E s \in GSessions, c \in SessionCorrIds, signature \in Signatures :
        /\ FromClient(s)
        /\ IF InReqVerifySignaturePanics(session[s], signature)
           THEN /\ Stops(s)
                /\ sent' = <<>>
                /\ trigger' = Trigger("Session", "InReqVerifySignature", s, c)
                /\ UNCHANGED session
           ELSE /\ SessionStep(s, InReqVerifySignature(session[s], s, c, signature),
                               Trigger("Session", "InReqVerifySignature", s, c))
                /\ UNCHANGED <<sessions, gameDied, roomDied>>
    /\ UNCHANGED <<server, outbound, mail, game, room, room_status, next_ticket, roomInbox, roomLinks,
                   next_challenge>>

RegisterClient ==
    /\ \E s \in GSessions, c \in SessionCorrIds, name \in Names :
        /\ FromClient(s)
        /\ SessionStep(s, InReqRegisterClient(session[s], s, c, name,
                                              game.status = "running"),
                       Trigger("Session", "InReqRegisterClient", s, c))
    /\ UNCHANGED <<server, outbound, mail, RoomVars, sessions, game, gameDied, roomInbox, next_challenge>>

\* a room-scoped request of client s reaches its Session
RoomScoped(request, payloads) ==
    /\ \E s \in GSessions, c \in SessionCorrIds, payload \in payloads :
        /\ FromClient(s)
        /\ SessionStep(s, InReqRoomScoped(session[s], s, c, request, payload, RoomAlive),
                       Trigger("Session", request, s, c))
    /\ UNCHANGED <<server, outbound, mail, RoomVars, sessions, game, gameDied, roomInbox, next_challenge>>

ClientList == RoomScoped("ClientListRequest", {""})
SendGameSettings == RoomScoped("SetGameSettingsRequest", GameSettingsChoices)
SendChat == RoomScoped("SendChatRequest", {"hi"})
StartGame == RoomScoped("StartGameRequest", GameSettingsChoices)
SendAnswer == RoomScoped("SendAnswerRequest", Answers)
StopGame == RoomScoped("StopGameRequest", {""})

QuestionResponse ==
    /\ \E s \in GSessions, c \in 1..GameTickets, q \in Questions :
        /\ FromClient(s)
        /\ SessionStep(s, InRespQuestion(session[s], s, c, q, RoomAlive),
                       Trigger("Session", "InRespQuestion", s, c))
    /\ UNCHANGED <<server, outbound, mail, RoomVars, sessions, game, gameDied, roomInbox, next_challenge>>

\* Message<RegisterClientRequest>: the Game handles what the Session told it
\* and tells the Room AddClient (a tell to a stopped Room fails and is ignored)
GameRegister ==
    /\ Len(sent) = 1 /\ sent[1].to = {GameActor}
    /\ game.status = "running"
    /\ LET m == sent[1]
           res == RegisterClientRequest(game, m.body.session, m.body.name,
                                        m.body.pub_key, m.corr)
       IN /\ game' = res.game
          /\ roomInbox' =
                IF is_some(res.add_client) /\ RoomAlive
                THEN Append(roomInbox,
                            Msg({RoomActor}, "AddClient", 0,
                                [requester |-> res.add_client[1].session,
                                 payload |-> res.add_client[1].uuid]))
                ELSE roomInbox
          /\ sent' = res.out
          /\ trigger' = Trigger("Game", "RegisterClientRequest", m.body.session, m.corr)
    /\ UNCHANGED <<server, outbound, mail, RoomVars, sessions, gameDied, session, next_challenge>>

\* the Room takes the request a Session told it
RoomTakes(type) ==
    /\ Len(sent) = 1 /\ sent[1].to = {RoomActor}
    /\ sent[1].type = type
    /\ RoomAlive

\* Message<AddClient>: session.link(room) comes first. Linking a session that
\* has already stopped may or may not signal the Room (the actor library
\* decides): both outcomes are kept.
RoomAddClient ==
    /\ Quiet
    /\ RoomAlive
    /\ roomInbox # <<>>
    /\ roomInbox' = Tail(roomInbox)
    /\ LET m == Head(roomInbox)
           s == m.body.requester
       IN /\ RoomStep(AddClient(room, m.body.payload, s, game),
                      Trigger("Room", "AddClient", s, 0), 0)
          /\ roomLinks' = roomLinks \cup {s}
          /\ \E signalled \in BOOLEAN :
                /\ signalled => sessions[s] = "dead"
                /\ roomDied' = IF signalled THEN roomDied \cup {s} ELSE roomDied
    /\ UNCHANGED <<server, outbound, mail, room_status, GameVars>>

\* RoomActor::on_link_died: the signal follows what the session told the Room
RoomOnLinkDied ==
    /\ Quiet
    /\ RoomAlive
    /\ \E s \in roomDied :
        /\ roomDied' = roomDied \ {s}
        /\ roomLinks' = roomLinks \ {s}
        /\ \E a \in NewAdminChoices(room, s) :
            RoomStep(on_link_died(room, s, a), Trigger("Room", "on_link_died", s, 0), 0)
    /\ UNCHANGED <<server, outbound, mail, room_status, roomInbox, GameVars>>

RoomOnTimeout ==
    /\ Quiet
    /\ RoomAlive
    /\ \E id \in 1..(next_ticket - 1) : RoomTimeout(id, GameTickets)
    /\ UNCHANGED <<server, outbound, mail, room_status, roomInbox, roomDied, roomLinks, GameVars>>

RoomOnClientList ==
    /\ RoomTakes("ClientListRequest")
    /\ LET m == sent[1] IN RoomClientList(m.body.requester, m.corr, game)
    /\ UNCHANGED <<server, outbound, mail, room_status, roomInbox, roomDied, roomLinks, GameVars>>

RoomOnSetGameSettings ==
    /\ RoomTakes("SetGameSettingsRequest")
    /\ LET m == sent[1]
       IN RoomSetGameSettings(m.body.requester, m.corr, m.body.payload)
    /\ UNCHANGED <<server, outbound, mail, room_status, roomInbox, roomDied, roomLinks, GameVars>>

RoomOnSendChat ==
    /\ RoomTakes("SendChatRequest")
    /\ LET m == sent[1] IN RoomSendChat(m.body.requester, m.corr, m.body.payload)
    /\ UNCHANGED <<server, outbound, mail, room_status, roomInbox, roomDied, roomLinks, GameVars>>

RoomOnStartGame ==
    /\ RoomTakes("StartGameRequest")
    /\ LET m == sent[1]
       IN RoomStartGame(m.body.requester, m.corr, m.body.payload, GameTickets)
    /\ UNCHANGED <<server, outbound, mail, room_status, roomInbox, roomDied, roomLinks, GameVars>>

RoomOnQuestionResponse ==
    /\ RoomTakes("ProvideQuestionResponse")
    /\ LET m == sent[1]
       IN RoomQuestionResponse(m.body.requester, m.corr, m.body.payload, GameTickets)
    /\ UNCHANGED <<server, outbound, mail, roomInbox, roomDied, roomLinks, GameVars>>

RoomOnSendAnswer ==
    /\ RoomTakes("SendAnswerRequest")
    /\ LET m == sent[1]
       IN RoomSendAnswer(m.body.requester, m.corr, m.body.payload, GameTickets)
    /\ UNCHANGED <<server, outbound, mail, room_status, roomInbox, roomDied, roomLinks, GameVars>>

RoomOnStopGame ==
    /\ RoomTakes("StopGameRequest")
    /\ LET m == sent[1] IN RoomStopGame(m.body.requester, m.corr)
    /\ UNCHANGED <<server, outbound, mail, room_status, roomInbox, roomDied, roomLinks, GameVars>>

NextGame ==
    \/ Connect
    \/ SessionStops
    \/ GameOnLinkDied
    \/ GameOnRoomDied
    \/ SendPublicKey
    \/ VerifySignature
    \/ RegisterClient
    \/ ClientList
    \/ SendGameSettings
    \/ SendChat
    \/ StartGame
    \/ SendAnswer
    \/ StopGame
    \/ QuestionResponse
    \/ GameRegister
    \/ RoomAddClient
    \/ RoomOnLinkDied
    \/ RoomOnTimeout
    \/ RoomOnClientList
    \/ RoomOnSetGameSettings
    \/ RoomOnSendChat
    \/ RoomOnStartGame
    \/ RoomOnQuestionResponse
    \/ RoomOnSendAnswer
    \/ RoomOnStopGame
    \/ Deliver

SpecGame == InitGame /\ [][NextGame]_vars

----------------------------------------------------------------------------
(* SpecLeave: clients connect, register, ask for the client list and leave. *)
(* An actor handles every message and every link-died signal in its        *)
(* mailbox, and a session passes on what it was sent: these steps are      *)
(* fair. A handler that starts from a quiet state is disabled while        *)
(* another handler's messages are on their way, so its fairness is strong. *)
(* What clients do, and when connections close, is not fair.               *)

NextLeave ==
    \/ Connect
    \/ SessionStops
    \/ GameOnLinkDied
    \/ SendPublicKey
    \/ VerifySignature
    \/ RegisterClient
    \/ ClientList
    \/ GameRegister
    \/ RoomAddClient
    \/ RoomOnLinkDied
    \/ RoomOnClientList
    \/ Deliver

FairLeave ==
    /\ SF_vars(GameOnLinkDied)
    /\ WF_vars(GameRegister)
    /\ SF_vars(RoomAddClient)
    /\ SF_vars(RoomOnLinkDied)
    /\ WF_vars(RoomOnClientList)
    /\ WF_vars(Deliver)

SpecLeave == InitGame /\ [][NextLeave]_vars /\ FairLeave

----------------------------------------------------------------------------
(* SpecOutbound: the outbound paths of two registered connections. The     *)
(* Room's handlers broadcast, the clients send requests, each Session and  *)
(* each Transport handles its mailbox.                                     *)

InitOutbound == InitWith({})

NotOutbound == <<sessions, game, room, room_status, next_ticket, roomInbox,
                 gameDied, roomDied, roomLinks, session, next_challenge, sent, trigger,
                 server, mail>>

RoomBroadcasts ==
    /\ \E members \in SUBSET Conns \ {{}}, k \in 1..MaxNotifs :
        /\ outbound.next_msg + k - 1 <= MaxMsgs
        /\ outbound' = [emit(outbound, members, outbound.next_msg, k)
                            EXCEPT !.next_msg = @ + k]
    /\ UNCHANGED NotOutbound

ClientRequests ==
    /\ outbound.next_msg <= MaxMsgs
    /\ \E s \in Conns :
        outbound' = [send_to_session(outbound, s, outbound.next_msg)
                        EXCEPT !.next_msg = @ + 1]
    /\ UNCHANGED NotOutbound

SessionSends ==
    /\ \E s \in Conns :
        /\ outbound.mailbox[s] # <<>>
        /\ outbound' = session_send(outbound, s)
    /\ UNCHANGED NotOutbound

TransportWrites ==
    /\ \E s \in Conns, ok \in BOOLEAN :
        /\ outbound.transport[s] # <<>>
        /\ outbound' = transport_write(outbound, s, ok)
    /\ UNCHANGED NotOutbound

NextOutbound ==
    \/ RoomBroadcasts
    \/ ClientRequests
    \/ SessionSends
    \/ TransportWrites

SpecOutbound == InitOutbound /\ [][NextOutbound]_vars

----------------------------------------------------------------------------
(* SpecServer: threads of the embedding process call call_launch_server and *)
(* call_stop_server, concurrently. No client is connected.                 *)

InitServer == InitWith({})

NotServer == <<sessions, game, room, room_status, next_ticket, roomInbox,
               gameDied, roomDied, roomLinks, session, next_challenge, sent, trigger,
               outbound, mail>>

\* call_launch_server: STATE.get_or_init(|| Mutex::new(None)), then lock()
CallLaunch ==
    /\ \E t \in Threads :
        /\ server.pc[t] = "idle"
        /\ server' = [server EXCEPT !.init = TRUE, !.pc[t] = "launch_lock"]
    /\ UNCHANGED NotServer

\* lock() returns when no thread holds the mutex
LaunchLocks ==
    /\ \E t \in Threads :
        /\ server.pc[t] = "launch_lock"
        /\ server.guard = 0
        /\ server' = [server EXCEPT !.guard = t, !.pc[t] = "launch_locked"]
    /\ UNCHANGED NotServer

LaunchChecks ==
    /\ \E t \in Threads, built \in BOOLEAN :
        /\ server.pc[t] = "launch_locked"
        /\ (is_none(server.slot) /\ built) => server.next_rt <= MaxLaunches
        /\ server' = launch_locked(server, t, built)
    /\ UNCHANGED NotServer

LaunchStores ==
    /\ \E t \in Threads :
        /\ server.pc[t] = "launch_built"
        /\ server' = launch_store(server, t)
    /\ UNCHANGED NotServer

\* call_stop_server: STATE.get() fails when the OnceLock was never set
CallStop ==
    /\ \E t \in Threads :
        /\ server.pc[t] = "idle"
        /\ server' = IF server.init
                      THEN [server EXCEPT !.pc[t] = "stop_lock"]
                      ELSE Return(server, t, "stop", "server was never started")
    /\ UNCHANGED NotServer

StopLocks ==
    /\ \E t \in Threads :
        /\ server.pc[t] = "stop_lock"
        /\ server.guard = 0
        /\ server' = [server EXCEPT !.guard = t, !.pc[t] = "stop_locked"]
    /\ UNCHANGED NotServer

StopTakes ==
    /\ \E t \in Threads :
        /\ server.pc[t] = "stop_locked"
        /\ server' = stop_locked(server, t)
    /\ UNCHANGED NotServer

NextServer ==
    \/ CallLaunch
    \/ LaunchLocks
    \/ LaunchChecks
    \/ LaunchStores
    \/ CallStop
    \/ StopLocks
    \/ StopTakes

SpecServer == InitServer /\ [][NextServer]_vars

----------------------------------------------------------------------------
(* SpecMailbox: the Game, the Room and the Sessions with bounded mailboxes. *)
(* The listener and the transports are the environment: they tell the Game  *)
(* and the Sessions whenever the mailbox has room, and a Session's tell to  *)
(* its Transport is taken to go through at once.                            *)

InitMailbox == InitWith({})

NotMail == <<sessions, game, room, room_status, next_ticket, roomInbox,
             gameDied, roomDied, roomLinks, session, next_challenge, sent, trigger,
             server, outbound>>

\* server.rs: the accept loop spawns a task that tells the Game NewClient
MailListener ==
    /\ \E s \in Sessions :
        /\ s \notin mail.connected
        /\ ~Full(mail, GameActor)
        /\ mail' = [mail EXCEPT !.connected = @ \cup {s},
                                !.box[GameActor] = Append(@, Mail("NewClient", s))]
    /\ UNCHANGED NotMail

\* spawn_client attaches the connection's stream to the transport after its
\* tell of SetTransport to the Session
Attached(m, s) ==
    \A i \in 1..Len(m.todo[GameActor]) :
        m.todo[GameActor][i].msg # Mail("SetTransport", s)

\* WebSocketClientActor::send_to_session: the transport tells the Session
\* what the client wrote
MailClientSends ==
    /\ \E s \in mail.pending \cup mail.registered, type \in ClientRequestTypes :
        /\ Attached(mail, s)
        /\ ~Full(mail, s)
        /\ mail' = [mail EXCEPT !.box[s] = Append(@, Mail(type, s))]
    /\ UNCHANGED NotMail

\* an actor whose handler has returned takes its next message
MailTake ==
    /\ \E a \in Actors :
        /\ Returned(mail, a)
        /\ mail.box[a] # <<>>
        /\ \E order \in Perms(mail.members \cup
                                (IF a = RoomActor /\ Head(mail.box[a]).type = "AddClient"
                                 THEN {Head(mail.box[a]).session} ELSE {})) :
              mail' = mail_take(mail, a, order)
    /\ UNCHANGED NotMail

\* the send a handler is suspended at goes through when the receiver's
\* mailbox has room
MailSend ==
    /\ \E a \in Actors :
        /\ mail.todo[a] # <<>>
        /\ ~(a = RoomActor /\ mail.awaiting)
        /\ ~Full(mail, Head(mail.todo[a]).to)
        /\ mail' = mail_send(mail, a)
    /\ UNCHANGED NotMail

NextMailbox ==
    \/ MailListener
    \/ MailClientSends
    \/ MailTake
    \/ MailSend

SpecMailbox == InitMailbox /\ [][NextMailbox]_vars

----------------------------------------------------------------------------
(* Properties of the Room, under Spec *)

\* C1: in every reachable Room state exactly one member is admin when the
\* Room is nonempty, and none when it is empty
C1_ExactlyOneAdmin ==
    Cardinality(Admins(room)) = IF DOMAIN room.clients = {} THEN 0 ELSE 1

\* C2: while a game is running, 0 <= rounds_played < rounds_count
C2_RoundsBelowCount ==
    room.is_game_running =>
        /\ 0 <= room.rounds_played
        /\ room.rounds_played < room.game_settings.rounds_count

\* the roundEnded notifications among the messages the last handler sent
RoundEndedSent == {i \in 1..Len(sent) : sent[i].type = "OUT_NOTIF_roundEnded"}

\* C3: every roundEnded carries as many answers as the Room has members when
\* it is emitted (no handler that emits it changes the member set)
C3_RoundEndedAnswersLen ==
    \A i \in RoundEndedSent :
        Len(sent[i].body.answers) = Cardinality(DOMAIN room.clients)

\* C9: the Room never stops on a panic, whatever clients send or however
\* they disconnect
C9_RoomKeepsRunning == room_status = "running"

\* the answers lists the last handler put on the wire
AnswerListsSent ==
    {sent[i].body.answers :
        i \in {j \in 1..Len(sent) :
                sent[j].type \in {"OUT_NOTIF_roundEnded", "OUT_NOTIF_gameStopped"}}}

DistinctIds(answers) ==
    \A i, j \in 1..Len(answers) : answers[i].id = answers[j].id => i = j

\* C5: the ids in current_answers are pairwise distinct, in the Room's state
\* and in the list finish_round and StopGame emit after the missing-answer fill
C5_DistinctAnswerIds ==
    /\ DistinctIds(room.current_answers)
    /\ \A a \in AnswerListsSent : DistinctIds(a)

\* a list was emitted that holds a submitted answer and a filled one
C5_Witness ==
    \E a \in AnswerListsSent :
        \E i, j \in 1..Len(a) : a[i].answer \in Answers /\ a[j].answer = ""

\* C8: a Timeout(id) that finds no entry for id changes no Room state, draws
\* no ticket and sends nothing
C8_LateTimeoutNoOp ==
    [][(trigger'.op = "Timeout" /\ trigger'.corr \notin DOMAIN room.pending)
        => /\ room' = room
           /\ room_status' = room_status
           /\ next_ticket' = next_ticket
           /\ sent' = <<>>]_vars

\* Timeout(2) was handled after the Round ticket 2 had been cancelled by the
\* last answer: the only round of the game is over, members are present (a
\* round ended by this Timeout would have been broadcast to them), and
\* nothing was sent
C8_Witness ==
    /\ trigger.op = "Timeout"
    /\ trigger.corr = 2
    /\ sent = <<>>
    /\ room_status = "running"
    /\ DOMAIN room.clients # {}
    /\ ~room.is_game_running
    /\ room.rounds_played = 1
    /\ DOMAIN room.pending = {}

\* the response's correlation id has no pending entry, or has a Question
\* entry recorded for a member whose session is not the sender
Mismatched(r, s, c) ==
    \/ c \notin DOMAIN r.pending
    \/ /\ r.pending[c].kind = "Question"
       /\ r.pending[c].uuid \in DOMAIN r.clients
       /\ r.clients[r.pending[c].uuid].session # s

\* C10: a mismatched or late question response leaves the whole Room state
\* unchanged, the pending tracker included
C10_MismatchedResponseNoChange ==
    [][(trigger'.op = "ProvideQuestionResponse"
            /\ Mismatched(room, trigger'.session, trigger'.corr))
        => room' = room]_vars

----------------------------------------------------------------------------
(* Properties of the connections, under SpecGame *)

\* C4: within one Session the verified flag never goes from true to false
C4_VerifiedMonotone ==
    [][\A s \in DOMAIN session :
          session[s].signature_verified => session'[s].signature_verified]_vars

InPending(g, s) == FindBySession(g.pending_clients, s) # {}
InRegistered(g, s) == FindBySession(g.registered_clients, s) # {}

NoSessionInBoth == \A s \in DOMAIN sessions : ~(InPending(game, s) /\ InRegistered(game, s))

\* what the Game's handlers do to the directories of the session in trigger'
DirectoryStep ==
    LET s == trigger'.session
    IN /\ trigger'.op = "NewClient" => InPending(game', s)
       /\ (trigger'.op = "RegisterClientRequest" /\ InPending(game, s)) =>
            \E u \in FindBySession(game.pending_clients, s) :
                /\ u \notin DOMAIN game'.pending_clients
                /\ u \in DOMAIN game'.registered_clients
                /\ game'.registered_clients[u].session = s
       /\ (trigger'.op = "RegisterClientRequest" /\ InRegistered(game, s)) =>
            game' = game

\* C6: no session is in both the pending and the registered directory;
\* NewClient puts the session in pending, RegisterClientRequest moves it to
\* registered under the same uuid, and a RegisterClientRequest from a
\* registered session changes neither directory
C6_Directories == []NoSessionInBoth /\ [][DirectoryStep]_vars

\* the Game has handled a RegisterClientRequest from a registered session
C6_Witness ==
    /\ trigger.op = "RegisterClientRequest"
    /\ InRegistered(game, trigger.session)
    /\ sent = <<>>

RespTypes ==
    {"OUT_RESP_status", "OUT_RESP_signMessage", "OUT_RESP_clientRegistered",
     "OUT_RESP_clientList"}

\* C7: every OUT_RESP_* a handler sends carries the correlation id of the
\* request it handles and goes to the requester, and so does the request a
\* Session passes on to the Game or the Room
C7_RespCarriesRequestId ==
    \A i \in 1..Len(sent) :
        /\ sent[i].type \in RespTypes =>
                sent[i].corr = trigger.corr /\ sent[i].to = {trigger.session}
        /\ sent[i].to \in {{GameActor}, {RoomActor}} => sent[i].corr = trigger.corr

\* the Room has answered "not admin" to a request that carries the id 2
C7_Witness ==
    /\ trigger.actor = "Room"
    /\ trigger.corr = 2
    /\ \E i \in 1..Len(sent) :
        sent[i].type = "OUT_RESP_status" /\ sent[i].body = "not admin"

\* C11: an IN_REQ_registerClient handled by a Session whose verified flag is
\* false is answered with the status "error" under the request's correlation
\* id and nothing else: nothing is told to the Game or broadcast, and the
\* directories, the Room and its mailbox and the Session stay as they were
C11_UnverifiedRegisterRejected ==
    [][(trigger'.op = "InReqRegisterClient"
            /\ ~session[trigger'.session].signature_verified)
        => /\ sent' = <<Msg({trigger'.session}, "OUT_RESP_status", trigger'.corr, "error")>>
           /\ game' = game
           /\ room' = room
           /\ roomInbox' = roomInbox
           /\ session' = session]_vars

\* an unverified Session that holds a public key, in a running Game with a
\* member in the Room, has answered a registerClient carrying the id 2
C11_Witness ==
    /\ trigger.op = "InReqRegisterClient"
    /\ trigger.corr = 2
    /\ ~session[trigger.session].signature_verified
    /\ is_some(session[trigger.session].pub_key)
    /\ game.status = "running"
    /\ DOMAIN room.clients # {}
    /\ sent = <<Msg({trigger.session}, "OUT_RESP_status", 2, "error")>>

----------------------------------------------------------------------------
(* Properties of the rounds of a game, under SpecRounds *)

\* the SendAnswer in trigger' comes from a member without an answer, in a
\* round, and brings the number of answers to the number of members
CompletesAnswers ==
    LET c == find_client(room, trigger'.session)
    IN /\ trigger'.op = "SendAnswerRequest"
       /\ is_some(c)
       /\ room.is_game_running
       /\ is_some(room.current_question)
       /\ c[1] \notin AnswerIds(room.current_answers)
       /\ Len(room.current_answers) + 1 = Cardinality(DOMAIN room.clients)

SentTypes(ms) == [i \in 1..Len(ms) |-> ms[i].type]

\* C12: the SendAnswer that completes the answers cancels the round ticket and
\* finishes the round in the same handler: after the reply every member is
\* sent clientAnswered for the sender, then roundEnded, and in the last round
\* then gameStopped with the default question and no answers, after which no
\* game is running; the Timeout of a ticket that is no longer pending ends no
\* round
C12_LastAnswerFinishesRound ==
    [][/\ CompletesAnswers =>
            LET c == find_client(room, trigger'.session)
                members == MemberSessions(room)
            IN /\ Len(sent') >= 3
               /\ sent'[1] = Msg({trigger'.session}, "OUT_RESP_status", trigger'.corr, "success")
               /\ sent'[2] = Msg(members, "OUT_NOTIF_clientAnswered", 0, c[1])
               /\ sent'[3].type = "OUT_NOTIF_roundEnded"
               /\ sent'[3].to = members
               /\ sent'[3].body.question = room.current_question[1]
               /\ room'.round_ticket = None
               /\ is_some(room.round_ticket)
               /\ room.round_ticket[1] \notin DOMAIN room'.pending
               /\ room'.rounds_played = room.rounds_played + 1
               /\ IF room'.rounds_played >= room.game_settings.rounds_count
                  THEN /\ Len(sent') = 4
                       /\ sent'[4] = Msg(members, "OUT_NOTIF_gameStopped", 0,
                                         [question |-> QuestionInfoDefault, answers |-> <<>>])
                       /\ ~room'.is_game_running
                  ELSE /\ \A i \in 1..Len(sent') : sent'[i].type # "OUT_NOTIF_gameStopped"
                       /\ room'.is_game_running
       /\ (trigger'.op = "Timeout" /\ trigger'.corr \notin DOMAIN room.pending) =>
            /\ \A i \in 1..Len(sent') : sent'[i].type # "OUT_NOTIF_roundEnded"
            /\ room'.is_game_running = room.is_game_running]_vars

\* the last answer of the second round of a game of two rounds, in a Room of
\* two members, has ended the game
C12_Witness ==
    /\ trigger.op = "SendAnswerRequest"
    /\ SentTypes(sent) = <<"OUT_RESP_status", "OUT_NOTIF_clientAnswered",
                            "OUT_NOTIF_roundEnded", "OUT_NOTIF_gameStopped">>
    /\ Cardinality(DOMAIN room.clients) = 2
    /\ Len(sent[3].body.answers) = 2
    /\ room.rounds_played = 2
    /\ room.game_settings.rounds_count = 2
    /\ ~room.is_game_running

\* the Timeout in trigger' is that of a pending Round ticket, in a round
RoundTimerFires ==
    /\ trigger'.op = "Timeout"
    /\ trigger'.corr \in DOMAIN room.pending
    /\ room.pending[trigger'.corr].kind = "Round"
    /\ room.is_game_running
    /\ is_some(room.current_question)

\* list is old followed by one empty answer, false and timed time_ms, for each
\* of the ids, each once
FilledFrom(list, old, ids, time_ms) ==
    /\ Len(list) = Len(old) + Cardinality(ids)
    /\ SubSeq(list, 1, Len(old)) = old
    /\ {list[i].id : i \in (Len(old) + 1)..Len(list)} = ids
    /\ \A i \in (Len(old) + 1)..Len(list) :
            list[i] = [id |-> list[i].id, answer |-> "", is_correct |-> FALSE,
                       answer_time |-> time_ms]

\* C13: when the round timer fires in a round, the members are sent roundEnded
\* with the submitted answers, unchanged and first, followed by one answer
\* {"", false, round_duration * 1000} for each member without an entry; then
\* current_question, current_answers, round_ticket and round_start are
\* cleared and rounds_played has grown by exactly 1
C13_TimerFillsMissingAnswers ==
    [][RoundTimerFires =>
        /\ DOMAIN room.clients # {} =>
              /\ Len(sent') >= 1
              /\ sent'[1].type = "OUT_NOTIF_roundEnded"
              /\ sent'[1].to = MemberSessions(room)
              /\ sent'[1].body.question = room.current_question[1]
              /\ FilledFrom(sent'[1].body.answers, room.current_answers,
                            DOMAIN room.clients \ AnswerIds(room.current_answers),
                            room.game_settings.round_duration * 1000)
        /\ room'.current_question = None
        /\ room'.current_answers = <<>>
        /\ room'.round_ticket = None
        /\ room'.round_start = None
        /\ room'.rounds_played = room.rounds_played + 1]_vars

\* the timer of the first round of a game of two rounds has fired in a Room of
\* two members of which one had answered: roundEnded carries the answer and a
\* filled one, and the admin is asked for the next question
C13_Witness ==
    /\ trigger.op = "Timeout"
    /\ SentTypes(sent) = <<"OUT_NOTIF_roundEnded", "OUT_REQ_question">>
    /\ Cardinality(DOMAIN room.clients) = 2
    /\ Len(sent[1].body.answers) = 2
    /\ sent[1].body.answers[1].answer \in Answers
    /\ sent[1].body.answers[2].answer = ""
    /\ room.rounds_played = 1
    /\ room.is_game_running

\* the last handler sent gameStopped: in SpecRounds only finish_round does
GameStoppedSent == \E i \in 1..Len(sent) : sent[i].type = "OUT_NOTIF_gameStopped"

\* C15: a game that is not stopped ends by itself after rounds_count rounds:
\* when finish_round sends gameStopped, the roundEnded notifications since
\* gameStarted, which rounds_played counts (StartGame sets it to 0 and
\* finish_round adds 1 with every roundEnded), are as many as the rounds_count
\* the game was started with
C15_GameEndsAfterCountRounds ==
    GameStoppedSent => room.rounds_played = room.game_settings.rounds_count

\* the same for the games started with a rounds_count of at least 1
C15_PositiveCounts ==
    (GameStoppedSent /\ room.game_settings.rounds_count >= 1)
        => room.rounds_played = room.game_settings.rounds_count

----------------------------------------------------------------------------
(* Properties of a stopped game, under SpecStop *)

\* the StopGame in trigger' comes from the admin, in a round
AdminStopsRound ==
    LET c == find_client(room, trigger'.session)
    IN /\ trigger'.op = "StopGameRequest"
       /\ is_some(c)
       /\ room.clients[c[1]].is_admin
       /\ room.is_game_running
       /\ is_some(room.current_question)

\* C14: StopGame of the admin in a round cancels the round ticket, replies
\* "success", sends the members gameStopped with the current question and the
\* answers completed by the missing-answer fill, and leaves no game running,
\* no question, no answers, no round ticket, no round start and
\* rounds_played = 0; a ticket that has left the pending tracker never
\* returns to it, and its Timeout ends no round
C14_StopGameInRound ==
    [][/\ AdminStopsRound =>
            /\ Len(sent') = 2
            /\ sent'[1] = Msg({trigger'.session}, "OUT_RESP_status", trigger'.corr, "success")
            /\ sent'[2].type = "OUT_NOTIF_gameStopped"
            /\ sent'[2].to = MemberSessions(room)
            /\ sent'[2].body.question = room.current_question[1]
            /\ FilledFrom(sent'[2].body.answers, room.current_answers,
                          DOMAIN room.clients \ AnswerIds(room.current_answers),
                          room.game_settings.round_duration * 1000)
            /\ is_some(room.round_ticket)
            /\ room.round_ticket[1] \notin DOMAIN room'.pending
            /\ room' = [room EXCEPT !.is_game_running = FALSE,
                                    !.current_question = None,
                                    !.current_answers = <<>>,
                                    !.round_ticket = None,
                                    !.round_start = None,
                                    !.rounds_played = 0,
                                    !.pending = cancel(@, room.round_ticket[1])]
       /\ \A id \in 1..(next_ticket - 1) :
            id \notin DOMAIN room.pending => id \notin DOMAIN room'.pending
       /\ (trigger'.op = "Timeout" /\ trigger'.corr \notin DOMAIN room.pending) =>
            \A i \in 1..Len(sent') : sent'[i].type \notin
                {"OUT_NOTIF_roundEnded", "OUT_NOTIF_gameStopped"}]_vars

\* the admin has stopped a game in a round, in a Room of two members of which
\* one had answered
C14_Witness ==
    /\ trigger.op = "StopGameRequest"
    /\ SentTypes(sent) = <<"OUT_RESP_status", "OUT_NOTIF_gameStopped">>
    /\ sent[1].body = "success"
    /\ Cardinality(DOMAIN room.clients) = 2
    /\ Len(sent[2].body.answers) = 2
    /\ sent[2].body.answers[1].answer \in Answers
    /\ sent[2].body.answers[2].answer = ""
    /\ sent[2].body.question # QuestionInfoDefault
    /\ DOMAIN room.pending = {}
    /\ room.rounds_played = 0

----------------------------------------------------------------------------
(* Properties of the Room's membership, under SpecMembers and SpecGame *)

\* what on_link_died for the member `gone` sent and did, as specified: the
\* survivors are told clientDisconnected, and adminMade after it exactly when
\* the admin left, for the member that is then the admin
LinkDiedNotifies(gone) ==
    LET survivors == MemberSessions(room) \ {room.clients[gone].session}
        left == Msg(survivors, "OUT_NOTIF_clientDisconnected", 0, gone)
    IN IF survivors = {}
       THEN sent' = <<>>
       ELSE IF room.clients[gone].is_admin
       THEN /\ Len(sent') = 2
            /\ sent'[1] = left
            /\ sent'[2].type = "OUT_NOTIF_adminMade"
            /\ sent'[2].to = survivors
            /\ Admins(room') = {sent'[2].body}
       ELSE sent' = <<left>>

\* C16: when the admin's session dies and members remain, the survivors are
\* sent clientDisconnected for the departed and then adminMade for the member
\* whose is_admin flag is set; when a non-admin's session dies they are sent
\* clientDisconnected and no adminMade
C16_DeathNotifications ==
    [][(trigger'.op = "on_link_died" /\ is_some(find_client(room, trigger'.session)))
        => LinkDiedNotifies(find_client(room, trigger'.session)[1])]_vars

\* what AddClient for session s under uuid sent and did, as specified
AddClientNotifies(s, uuid) ==
    LET first == DOMAIN room.clients = {}
        everyone == MemberSessions(room) \cup {s}
    IN /\ room' = [room EXCEPT !.clients =
                        MapInsert(@, uuid, [session |-> s, is_admin |-> first])]
       /\ Len(sent') = 2
       /\ sent'[1].type = "OUT_NOTIF_clientRegistered"
       /\ sent'[1].to = everyone
       /\ sent'[1].body.id = uuid
       /\ sent'[1].body.is_admin = first
       /\ sent'[2].to = everyone
       /\ IF first
          THEN sent'[2].type = "OUT_NOTIF_adminMade" /\ sent'[2].body = uuid
          ELSE /\ sent'[2].type = "OUT_NOTIF_gameSettingsChanged"
               /\ sent'[2].body = room.game_settings

\* C17: AddClient into an empty Room makes the newcomer admin and broadcasts
\* clientRegistered with is_admin = true, then adminMade for it; into a
\* nonempty Room it adds a non-admin and broadcasts clientRegistered with
\* is_admin = false, then gameSettingsChanged with the Room's settings and no
\* adminMade; every member, the newcomer included, is told
C17_AddClientNotifications ==
    [][trigger'.op = "AddClient"
        => AddClientNotifies(trigger'.session, ClientUuid(trigger'.session))]_vars

\* the same for the newcomers the Game still has in its registered directory
\* when the Room asks GetClientsInfo
C17_RegisteredNewcomers ==
    [][(trigger'.op = "AddClient"
            /\ ClientUuid(trigger'.session) \in DOMAIN game.registered_clients)
        => AddClientNotifies(trigger'.session, ClientUuid(trigger'.session))]_vars

----------------------------------------------------------------------------
(* Properties of the Room's guards, under Spec *)

AdminOnlyOps == {"StartGameRequest", "StopGameRequest", "SetGameSettingsRequest"}

\* the status alone, sent to the sender of the request in trig under the
\* request's correlation id
StatusTo(trig, status) == <<Msg({trig.session}, "OUT_RESP_status", trig.corr, status)>>

\* C18: StartGame, StopGame and SetGameSettings from a member that is not admin
\* are answered "not admin" and nothing else happens: every Room field, the
\* pending tracker included, stays as it was, no ticket is drawn and nothing
\* is broadcast
C18_NotAdminRejected ==
    [][(/\ trigger'.op \in AdminOnlyOps
        /\ is_some(find_client(room, trigger'.session))
        /\ ~room.clients[find_client(room, trigger'.session)[1]].is_admin)
        => /\ sent' = StatusTo(trigger', "not admin")
           /\ room' = room
           /\ next_ticket' = next_ticket]_vars

\* a non-admin's StopGame has been answered "not admin" in a round
C18_Witness ==
    /\ trigger.op = "StopGameRequest"
    /\ sent = StatusTo(trigger, "not admin")
    /\ Cardinality(DOMAIN room.clients) = 2
    /\ room.is_game_running
    /\ is_some(room.current_question)
    /\ is_some(room.round_ticket)

\* C19: a SendAnswer outside a round is answered "no active round" and one
\* from a member that has an entry in current_answers "already answered";
\* in both cases the Room is unchanged and nothing is broadcast, so that
\* current_answers grows only in a round and by an answer of a member
\* without an entry
C19_AnswersOnlyInRound ==
    [][(trigger'.op = "SendAnswerRequest" /\ is_some(find_client(room, trigger'.session)))
        => LET u == find_client(room, trigger'.session)[1]
               in_round == room.is_game_running /\ is_some(room.current_question)
           IN /\ ~in_round =>
                    /\ sent' = StatusTo(trigger', "no active round")
                    /\ room' = room
                    /\ next_ticket' = next_ticket
              /\ (in_round /\ u \in AnswerIds(room.current_answers)) =>
                    /\ sent' = StatusTo(trigger', "already answered")
                    /\ room' = room
                    /\ next_ticket' = next_ticket
              /\ (in_round /\ u \notin AnswerIds(room.current_answers)) =>
                    /\ sent'[1] = StatusTo(trigger', "success")[1]
                    /\ \/ \E answer \in Answers :
                            room'.current_answers =
                              Append(room.current_answers,
                                     [id |-> u, answer |-> answer,
                                      is_correct |-> answer \in room.current_question[1].readings,
                                      answer_time |-> ElapsedMs])
                       \/ /\ room'.current_answers = <<>>
                          /\ \E i \in 1..Len(sent') : sent'[i].type = "OUT_NOTIF_roundEnded"]_vars

\* a member's second SendAnswer of a round has been answered "already answered"
C19_Witness ==
    /\ trigger.op = "SendAnswerRequest"
    /\ sent = StatusTo(trigger, "already answered")
    /\ room.is_game_running
    /\ is_some(room.current_question)
    /\ Len(room.current_answers) = 1
    /\ Cardinality(DOMAIN room.clients) = 2

----------------------------------------------------------------------------
(* Properties of the launch/stop API, under SpecServer *)

\* at most one runtime is alive, and it is the one STATE records, or the one
\* the thread that holds the mutex has built and is about to record
OneServer ==
    /\ Cardinality(server.runtimes) <= 1
    /\ is_some(server.slot) => server.runtimes = {server.slot[1]}
    /\ (is_none(server.slot) /\ server.runtimes # {}) =>
            /\ server.guard # 0
            /\ server.pc[server.guard] = "launch_built"
            /\ server.runtimes = {server.rt[server.guard]}

\* what STATE records and the runtimes alive
Recorded(sv) == <<sv.init, sv.slot, sv.runtimes, sv.next_rt>>

\* the step of thread t inside call_launch_server, as specified
LaunchStep(t) ==
    /\ (server.pc[t] = "launch_locked" /\ is_some(server.slot)) =>
            /\ server'.ret[t] = [call |-> "launch", result |-> "server already running"]
            /\ server'.pc[t] = "idle"
            /\ Recorded(server') = Recorded(server)
    /\ (server.pc[t] = "launch_locked" /\ is_none(server.slot)) =>
            \/ /\ server'.pc[t] = "launch_built"
               /\ server'.runtimes = {server'.rt[t]}
               /\ server'.rt[t] \notin server.runtimes
            \/ /\ server'.ret[t] = [call |-> "launch", result |-> "build error"]
               /\ Recorded(server') = Recorded(server)
    /\ server.pc[t] = "launch_built" =>
            /\ server'.ret[t] = [call |-> "launch", result |-> "Ok"]
            /\ server'.slot = Some(server.rt[t])
            /\ server'.runtimes = {server.rt[t]}

\* the step of thread t inside call_stop_server, as specified
StopStep(t) ==
    /\ (server.pc[t] = "idle" /\ server'.pc[t] = "idle" /\ ~server.init) =>
            /\ server'.ret[t] = [call |-> "stop", result |-> "server was never started"]
            /\ Recorded(server') = Recorded(server)
    /\ (server.pc[t] = "stop_locked" /\ is_none(server.slot)) =>
            /\ server'.ret[t] = [call |-> "stop", result |-> "server is not running"]
            /\ Recorded(server') = Recorded(server)
    /\ (server.pc[t] = "stop_locked" /\ is_some(server.slot)) =>
            /\ server'.ret[t] = [call |-> "stop", result |-> "Ok"]
            /\ server'.slot = None
            /\ server'.runtimes = {}

\* the thread that takes a step
Stepping(t) == server'.pc[t] # server.pc[t] \/ server'.ret[t] # server.ret[t]

\* C20: launchServer fails with "server already running" and changes nothing
\* when a server is recorded; stopServer fails when STATE was never set or
\* records no server; a successful stopServer leaves no server, so that the
\* launchServer that follows it finds none and succeeds when its runtime can
\* be built; and at most one server is alive at any time, with the calls
\* made concurrently
C20_LaunchStop ==
    /\ []OneServer
    /\ [][\A t \in Threads : Stepping(t) => LaunchStep(t) /\ StopStep(t)]_vars

\* a thread has launched the second server after the first was stopped, and
\* the other thread's launch was then refused
C20_Witness ==
    /\ server.slot = Some(2)
    /\ server.runtimes = {2}
    /\ \E t, u \in Threads :
        /\ t # u
        /\ server.ret[t] = [call |-> "launch", result |-> "Ok"]
        /\ server.ret[u] = [call |-> "launch", result |-> "server already running"]
        /\ server.pc[t] = "idle"
        /\ server.pc[u] = "idle"


----------------------------------------------------------------------------
(* C21 *)

\* the uuid of session s is in neither directory and both actors run
Gone(s) ==
    /\ ClientUuid(s) \notin DOMAIN game.registered_clients
    /\ ClientUuid(s) \notin DOMAIN room.clients
    /\ game.status = "running"
    /\ room_status = "running"

\* C21: after the session of a registered client has died, eventually its
\* uuid is in neither the Game's registered directory nor the Room's member
\* set, with Room and Game running, and it stays so (GetClientsInfo and
\* clientList read these two maps).
C21_DeadClientLeaves ==
    \A s \in GSessions :
        (sessions[s] = "dead" /\ InRegistered(game, s)) ~> [](Gone(s))

\* the safety half: a dead session that is a member of the Room has its
\* link-died signal on the way to the Room
C21_DeadMemberSignalled ==
    \A s \in GSessions :
        (sessions[s] = "dead" /\ ClientUuid(s) \in DOMAIN room.clients) => s \in roomDied


----------------------------------------------------------------------------
(* C22 *)

\* the place of message x in seq
Pos(seq, x) == CHOOSE i \in 1..Len(seq) : seq[i] = x

\* C22: on every connection the messages written to the client's channel
\* are in the order in which they were delivered to the connection's
\* Session: each one was delivered, and of two written messages the one
\* written first was delivered first. The notifications of one broadcasting
\* handler are delivered in emission order, so they are written in it.
C22_OutboundOrder ==
    \A s \in Conns :
        LET w == outbound.wire[s]
            d == outbound.delivered[s]
        IN /\ \A i \in 1..Len(w) : \E j \in 1..Len(d) : d[j] = w[i]
           /\ \A i, j \in 1..Len(w) : i < j => Pos(d, w[i]) < Pos(d, w[j])

\* a connection has written three messages, the two notifications of one
\* handler among them side by side, and lost a fourth; nothing is on the way
C22_Witness ==
    \E s \in Conns :
        /\ outbound.mailbox[s] = <<>>
        /\ outbound.transport[s] = <<>>
        /\ Len(outbound.delivered[s]) = 4
        /\ Len(outbound.wire[s]) = 3
        /\ \E t \in Conns \ {s}, i \in 1..2 :
            /\ Len(outbound.wire[t]) = 2
            /\ outbound.wire[t] = <<outbound.wire[s][i], outbound.wire[s][i + 1]>>


----------------------------------------------------------------------------
(* C23 *)

\* the member that joined the Room before every other member present: the
\* sessions join in the order of their numbers, and so do their uuids
Earliest(r) == CHOOSE u \in DOMAIN r.clients : \A v \in DOMAIN r.clients : u <= v

\* C23: the admin of the Room is always the earliest-joined member still
\* present (so the member promoted when the admin leaves is the one that
\* joined before every other remaining member).
C23_AdminIsEarliest ==
    DOMAIN room.clients # {} => \A u \in Admins(room) : u = Earliest(room)


----------------------------------------------------------------------------
(* C24 *)

\* the Room has just handled StartGame from a member that was admin
AdminStartsGame ==
    /\ trigger'.actor = "Room"
    /\ trigger'.op = "StartGameRequest"
    /\ \E c \in Admins(room) : room.clients[c].session = trigger'.session

\* C24: StartGame by the admin while no game runs clears the question, the
\* answers and the round ticket, stores the settings (those gameStarted
\* carries), sets is_game_running and rounds_played = 0, replies "success",
\* broadcasts gameStarted and then sends one OUT_REQ_question to the admin
\* under a fresh correlation id, registered as a pending Question entry of
\* that admin with a 5 s timeout; while a game runs it replies "already
\* running" and changes nothing.
C24_StartGame ==
    [][AdminStartsGame =>
        IF room.is_game_running
        THEN /\ room' = room
             /\ next_ticket' = next_ticket
             /\ sent' = <<reply_status(trigger'.session, trigger'.corr, "already running")>>
        ELSE /\ room'.current_question = None
             /\ room'.current_answers = <<>>
             /\ room'.round_ticket = None
             /\ room'.is_game_running
             /\ room'.rounds_played = 0
             /\ room'.clients = room.clients
             /\ Len(sent') = 3
             /\ sent'[1] = reply_status(trigger'.session, trigger'.corr, "success")
             /\ sent'[2] = broadcast(room, "OUT_NOTIF_gameStarted", 0, room'.game_settings)
             /\ next_ticket \notin DOMAIN room.pending
             /\ next_ticket' = next_ticket + 1
             /\ \E a \in Admins(room) :
                 /\ sent'[3] = Msg({room.clients[a].session}, "OUT_REQ_question",
                                   next_ticket, "")
                 /\ room'.pending =
                        add(room.pending, next_ticket,
                            [kind |-> "Question", uuid |-> a, t_out |-> 5])
    ]_vars

\* the admin has started a second game after a first one was played to its end
C24_Witness ==
    /\ trigger.actor = "Room"
    /\ trigger.op = "StartGameRequest"
    /\ Len(sent) = 3
    /\ sent[3].type = "OUT_REQ_question"
    /\ sent[3].corr = 3
    /\ room.is_game_running
    /\ room.rounds_played = 0
    /\ DOMAIN room.pending = {3}


----------------------------------------------------------------------------
(* C25 *)

\* the Timeout in trigger' is that of a pending Question entry: its timer
\* fired before a response took the entry
QuestionTimerFires ==
    /\ trigger'.actor = "Room"
    /\ trigger'.op = "Timeout"
    /\ trigger'.corr \in DOMAIN room.pending
    /\ room.pending[trigger'.corr].kind = "Question"

\* the handler only takes the entry: nothing else changes, nothing is sent
OnlyWarns ==
    /\ room' = [room EXCEPT !.pending = take(room.pending, trigger'.corr).map]
    /\ sent' = <<>>
    /\ next_ticket' = next_ticket

\* the game awaits a question whose request, the latest ticket drawn, has no
\* pending entry any more
QuestionLapsed ==
    /\ room.is_game_running
    /\ is_none(room.current_question)
    /\ (next_ticket - 1) \notin DOMAIN room.pending

\* the firing of a Question timer changes the pending map only, sends nothing
\* and leaves the game awaiting a question whose request has lapsed
C25_TimeoutOnlyWarns ==
    [][QuestionTimerFires =>
        /\ OnlyWarns
        /\ (room.is_game_running /\ is_none(room.current_question)
                /\ trigger'.corr = next_ticket - 1) => QuestionLapsed'
    ]_vars

\* C25: when the timer of a pending Question entry fires before the admin
\* responded, the Room only warns (is_game_running is unchanged, no round
\* starts, no OUT_REQ_question is sent, nothing is broadcast), and from then
\* on the game keeps awaiting the question until a StopGame is handled.
C25_QuestionTimeoutHangs ==
    [][/\ QuestionTimerFires => OnlyWarns
       /\ (QuestionLapsed /\ trigger'.op # "StopGameRequest") => QuestionLapsed'
    ]_vars


----------------------------------------------------------------------------
(* C26 *)

\* finish_round leaves a Room without a running game as it is, sends nothing
\* and draws no ticket, whatever the iteration order and the admin
FinishRoundIdle ==
    ~room.is_game_running =>
        \A keys \in KeyOrders(room), a \in AdminChoices(room) :
            finish_round(room, keys, a, next_ticket) = Result(room, <<>>, FALSE)

\* the Timeout in trigger' is that of a pending Round ticket, no game running
RoundTimerFiresStopped ==
    /\ trigger'.actor = "Room"
    /\ trigger'.op = "Timeout"
    /\ trigger'.corr \in DOMAIN room.pending
    /\ room.pending[trigger'.corr].kind = "Round"
    /\ ~room.is_game_running

\* C26: finish_round called while is_game_running is false does nothing (no
\* answer is filled, no roundEnded or gameStopped is broadcast, rounds_played
\* is not incremented, no question is requested); so a Round timer that
\* fires after the game has stopped sends nothing: the handler takes the
\* entry and clears round_ticket, and that is all.
C26_FinishRoundWhenStopped ==
    /\ []FinishRoundIdle
    /\ [][RoundTimerFiresStopped =>
            /\ sent' = <<>>
            /\ next_ticket' = next_ticket
            /\ room' = [room EXCEPT !.pending = take(room.pending, trigger'.corr).map,
                                    !.round_ticket = None]
       ]_vars

\* the Round timer of a question accepted after StopGame has fired: the
\* question is still there, nothing was sent, no game runs
C26_Witness ==
    /\ trigger.actor = "Room"
    /\ trigger.op = "Timeout"
    /\ trigger.corr = 2
    /\ sent = <<>>
    /\ next_ticket = 3
    /\ 2 \notin DOMAIN room.pending
    /\ ~room.is_game_running
    /\ is_some(room.current_question)
    /\ is_none(room.round_ticket)
    /\ room.current_answers = <<>>
    /\ DOMAIN room.clients # {}


----------------------------------------------------------------------------
(* C27 *)

\* the handler in trigger' runs finish_round in a running game that has
\* rounds left after this one: the last missing answer, or the Round timer
FinishesRoundWithMore ==
    /\ trigger'.actor = "Room"
    /\ \/ CompletesAnswers
       \/ /\ trigger'.op = "Timeout"
          /\ trigger'.corr \in DOMAIN room.pending
          /\ room.pending[trigger'.corr].kind = "Round"
    /\ room.is_game_running
    /\ room.rounds_played + 1 < room.game_settings.rounds_count

QuestionRequests(ms) == {i \in 1..Len(ms) : ms[i].type = "OUT_REQ_question"}

\* C27: after finish_round with rounds left the Room awaits a question again:
\* exactly one OUT_REQ_question, under a fresh correlation id, is sent to a
\* member that is admin at that moment and is registered as a pending
\* Question entry of that admin; if no member is admin (the Room is empty)
\* is_game_running is set to false and no request is sent.
C27_NextQuestionRequested ==
    [][FinishesRoundWithMore =>
        /\ room'.rounds_played = room.rounds_played + 1
        /\ room'.clients = room.clients
        /\ is_none(room'.current_question)
        /\ IF Admins(room) = {}
           THEN /\ DOMAIN room.clients = {}
                /\ ~room'.is_game_running
                /\ QuestionRequests(sent') = {}
                /\ next_ticket' = next_ticket
                /\ DOMAIN room'.pending \subseteq DOMAIN room.pending
           ELSE /\ room'.is_game_running
                /\ QuestionRequests(sent') = {Len(sent')}
                /\ next_ticket \notin DOMAIN room.pending
                /\ next_ticket' = next_ticket + 1
                /\ \E a \in Admins(room) :
                    /\ sent'[Len(sent')] = Msg({room.clients[a].session},
                                               "OUT_REQ_question", next_ticket, "")
                    /\ next_ticket \in DOMAIN room'.pending
                    /\ room'.pending[next_ticket] = PendingQuestion(a)
                    /\ \A id \in DOMAIN room'.pending \ {next_ticket} :
                            id \in DOMAIN room.pending
    ]_vars

\* the first round of a game of two has ended by its timer in a Room of two
\* members and the admin is asked for the next question
C27_Witness ==
    /\ trigger.actor = "Room"
    /\ trigger.op = "Timeout"
    /\ SentTypes(sent) = <<"OUT_NOTIF_roundEnded", "OUT_REQ_question">>
    /\ sent[2].corr = 3
    /\ Cardinality(DOMAIN room.clients) = 2
    /\ room.is_game_running
    /\ room.rounds_played = 1
    /\ room.game_settings.rounds_count = 2
    /\ DOMAIN room.pending = {3}

\* the Round timer has fired in a Room that every member had left, with a
\* round still to play: the game is over and nobody was asked
C27_EmptyRoomReached ==
    /\ trigger.actor = "Room"
    /\ trigger.op = "Timeout"
    /\ DOMAIN room.clients = {}
    /\ ~room.is_game_running
    /\ room.rounds_played = 1
    /\ room.game_settings.rounds_count = 2


----------------------------------------------------------------------------
(* C28 *)

\* whatever key a client supplies next, the handler stores it
SuppliedKeyStored ==
    \A s \in DOMAIN session, c \in SessionCorrIds, key \in Keys :
        InReqSendPublicKey(session[s], s, c, key, next_challenge).session.pub_key
            = Some(key)

\* C28: every IN_REQ_sendPublicKey stores the supplied key and a fresh
\* challenge in place of any earlier one and is answered with
\* OUT_RESP_signMessage carrying that challenge; a session that is already
\* verified is sent the status "signature already verified" as well, and its
\* key and challenge are replaced all the same; the verified flag (and the
\* session's room) is left as it was.
C28_SendPublicKey ==
    /\ []SuppliedKeyStored
    /\ [][(trigger'.actor = "Session" /\ trigger'.op = "InReqSendPublicKey") =>
            LET s == trigger'.session
                challenge == next_challenge
                sign == Msg({s}, "OUT_RESP_signMessage", trigger'.corr, challenge)
            IN /\ \A t \in DOMAIN session : session[t].sign_challenge # Some(challenge)
               /\ next_challenge' = challenge + 1
               /\ \E key \in Keys : session'[s].pub_key = Some(key)
               /\ session'[s].sign_challenge = Some(challenge)
               /\ session'[s].signature_verified = session[s].signature_verified
               /\ session'[s].room = session[s].room
               /\ \A t \in DOMAIN session \ {s} : session'[t] = session[t]
               /\ sent' = IF session[s].signature_verified
                          THEN <<Msg({s}, "OUT_RESP_status", trigger'.corr,
                                     "signature already verified"), sign>>
                          ELSE <<sign>>
       ]_vars

\* a verified session has sent a second key: it is told so, gets the second
\* challenge and stays verified
C28_Witness ==
    /\ trigger.op = "InReqSendPublicKey"
    /\ Len(sent) = 2
    /\ sent[1].body = "signature already verified"
    /\ sent[2].type = "OUT_RESP_signMessage"
    /\ sent[2].body = 2
    /\ session[trigger.session].signature_verified
    /\ session[trigger.session].sign_challenge = Some(2)
    /\ session[trigger.session].pub_key = Some("K2")


----------------------------------------------------------------------------
(* C29 *)

\* C29: every IN_REQ_verifysignature is answered with exactly one
\* OUT_RESP_status under the request's correlation id: "no stored
\* challenges" without a challenge, "no public key" without a key, else
\* "success" when the session is verified by it and "error" when it is not.
C29_OneStatusPerVerify ==
    [][(trigger'.actor = "Session" /\ trigger'.op = "InReqVerifySignature") =>
            LET s == trigger'.session
            IN /\ Len(sent') = 1
               /\ sent'[1].type = "OUT_RESP_status"
               /\ sent'[1].to = {s}
               /\ sent'[1].corr = trigger'.corr
               /\ sent'[1].body =
                    IF is_none(session[s].sign_challenge) THEN "no stored challenges"
                    ELSE IF is_none(session[s].pub_key) THEN "no public key"
                    ELSE IF session'[s].signature_verified THEN "success"
                    ELSE "error"
       ]_vars


----------------------------------------------------------------------------
(* C30 *)

\* a is the beginning of b
Prefix(a, b) == Len(a) <= Len(b) /\ SubSeq(b, 1, Len(a)) = a

InRound(r) == r.is_game_running /\ is_some(r.current_question)

\* the notifications of the last handler that end a round (a notification
\* to no member is not sent)
RoundEnds(ms) ==
    {i \in 1..Len(ms) : ms[i].type \in {"OUT_NOTIF_roundEnded", "OUT_NOTIF_gameStopped"}}

\* the step ends the round: finish_round has counted it or the game is over
RoundOver == room'.rounds_played # room.rounds_played \/ ~room'.is_game_running

\* C30: within a round current_answers only grows at its end, by the answer
\* of the SendAnswer just handled: the answers handled before stay where
\* they are until the round ends, and the answers the round ends with
\* (roundEnded, or gameStopped of StopGame) are those submitted, in that
\* order, followed by the filled ones.
C30_AnswersAppendOnly ==
    [][(InRound(room) /\ trigger'.actor = "Room") =>
        /\ ~RoundOver =>
             /\ Prefix(room.current_answers, room'.current_answers)
             /\ Len(room'.current_answers) <= Len(room.current_answers) + 1
             /\ Len(room'.current_answers) = Len(room.current_answers) + 1 =>
                    LET c == find_client(room, trigger'.session)
                    IN /\ trigger'.op = "SendAnswerRequest"
                       /\ is_some(c)
                       /\ room'.current_answers[Len(room'.current_answers)].id = c[1]
        /\ RoundEnds(sent') # {} =>
             LET first == sent'[CHOOSE i \in RoundEnds(sent') :
                                    \A j \in RoundEnds(sent') : i <= j]
                 given == Len(room.current_answers)
                            + (IF trigger'.op = "SendAnswerRequest" THEN 1 ELSE 0)
             IN /\ RoundOver
                /\ Prefix(room.current_answers, first.body.answers)
                /\ \A i \in (given + 1)..Len(first.body.answers) :
                        first.body.answers[i].answer = ""
    ]_vars


----------------------------------------------------------------------------
(* C31 *)

\* C31: an IN_RESP_question whose correlation id is that of the pending
\* Round entry of the running round (round_ticket) leaves that entry in the
\* tracker, so that the round's timer still ends the round.
C31_ResponseKeepsRoundEntry ==
    [][(/\ trigger'.actor = "Room"
        /\ trigger'.op = "ProvideQuestionResponse"
        /\ is_some(room.round_ticket)
        /\ trigger'.corr = room.round_ticket[1]
        /\ trigger'.corr \in DOMAIN room.pending
        /\ room.pending[trigger'.corr].kind = "Round") =>
            /\ trigger'.corr \in DOMAIN room'.pending
            /\ room'.pending[trigger'.corr] = room.pending[trigger'.corr]
    ]_vars


----------------------------------------------------------------------------
(* C32 *)

\* the timer task of the entry added under id: after its sleep it tells the
\* Room Timeout(id), whatever became of the entry meanwhile
TimeoutOf(id) ==
    /\ RoomRunning
    /\ id < next_ticket
    /\ RoomTimeout(id, StopTickets)
    /\ UNCHANGED <<sessions, room_status, OtherVars>>

\* every spawned timer task delivers its Timeout and the Room handles every
\* message of its mailbox
FairTimers ==
    /\ WF_vars(Deliver)
    /\ \A id \in 1..StopTickets : SF_vars(TimeoutOf(id))

SpecPending == Init /\ [][NextStop]_vars /\ FairTimers

\* the step removes the entry id from the tracker
Removes(id) == id \in DOMAIN room.pending /\ id \notin DOMAIN room'.pending

\* an entry leaves the tracker only by take on an IN_RESP_question or a
\* Timeout carrying its id, or by cancel of the round ticket
RemovedByTakeOrCancel ==
    \A id \in 1..StopTickets : Removes(id) =>
        /\ trigger'.actor = "Room"
        /\ \/ trigger'.op \in {"ProvideQuestionResponse", "Timeout"}
              /\ trigger'.corr = id
           \/ trigger'.op \in {"SendAnswerRequest", "StopGameRequest"}
              /\ room.round_ticket = Some(id)

\* an entry enters the tracker under a fresh id only, so a removed entry
\* never comes back
AddedFresh ==
    \A id \in 1..StopTickets :
        (id \notin DOMAIN room.pending /\ id \in DOMAIN room'.pending) =>
            id = next_ticket /\ next_ticket' = id + 1

\* the kind of an entry is dispatched only by the step that removes the
\* entry: a question is accepted by the take of its Question entry, a Timeout
\* does more than warn only by the take of its Round entry
DispatchedByRemoval ==
    /\ (/\ trigger'.actor = "Room"
        /\ trigger'.op = "ProvideQuestionResponse"
        /\ room'.current_question # room.current_question) =>
            /\ Removes(trigger'.corr)
            /\ room.pending[trigger'.corr].kind = "Question"
    /\ (/\ trigger'.actor = "Room"
        /\ trigger'.op = "Timeout"
        /\ ~OnlyWarns) =>
            /\ Removes(trigger'.corr)
            /\ room.pending[trigger'.corr].kind = "Round"

----------------------------------------------------------------------------
(* C33 *)

\* the session has proved possession of the key it stores: it stays verified
\* across the step and its key is the one it had
KeepsVerifiedKey(s) ==
    (session[s].signature_verified /\ session'[s].signature_verified) =>
        session'[s].pub_key = session[s].pub_key

\* a session becomes verified only by an IN_REQ_verifysignature of its own,
\* which leaves its key as it was
VerifiedBySignature(s) ==
    (~session[s].signature_verified /\ session'[s].signature_verified) =>
        /\ trigger' = Trigger("Session", "InReqVerifySignature", s, trigger'.corr)
        /\ is_some(session[s].pub_key)
        /\ session'[s].pub_key = session[s].pub_key

\* the RegisterClientRequest a session tells the Game carries the key the
\* session stores, and only a verified session tells one
RegistersStoredKey ==
    \A i \in 1..Len(sent') :
        (sent'[i].type = "RegisterClientRequest" /\ sent' # sent) =>
            LET s == sent'[i].body.session
            IN /\ session[s].signature_verified
               /\ session[s].pub_key = Some(sent'[i].body.pub_key)

\* the Game stores the key of the request as the client's key
StoresRequestKey ==
    (Len(sent) = 1 /\ sent[1].type = "RegisterClientRequest") =>
        \A u \in DOMAIN game'.registered_clients \ DOMAIN game.registered_clients :
            game'.registered_clients[u].info.key = sent[1].body.pub_key

\* C33: the key stored for a registered client is the key whose possession
\* its session proved: a session becomes verified only by a signature checked
\* against its stored key, the key of a verified session is not replaced,
\* registration is told the stored key of a verified session, and the Game
\* stores that key as info.key.
C33_RegisteredKeyVerified ==
    [][/\ \A s \in DOMAIN session : KeepsVerifiedKey(s) /\ VerifiedBySignature(s)
       /\ RegistersStoredKey
       /\ StoresRequestKey
    ]_vars

\* the same without the clause on the key of a verified session: holds
C33_RegisteredKeyStored ==
    [][/\ \A s \in DOMAIN session : VerifiedBySignature(s)
       /\ RegistersStoredKey
       /\ StoresRequestKey
    ]_vars

----------------------------------------------------------------------------
(* C34 *)

\* the step is the Room accepting a question: the handler of IN_RESP_question
\* stores it as current_question and draws the round's ticket
AcceptsQuestion ==
    /\ trigger'.actor = "Room"
    /\ trigger'.op = "ProvideQuestionResponse"
    /\ room_status' = "running"
    /\ room'.round_ticket # room.round_ticket

\* C34: a question is accepted only while the game is running, and in every
\* state a current question or a round ticket implies a running game.
C34_QuestionOnlyWhileRunning ==
    /\ [][AcceptsQuestion => room.is_game_running]_vars
    /\ [](is_some(room.round_ticket) => room.is_game_running)
    /\ [](is_some(room.current_question) => room.is_game_running)

\* the first clause alone
C34_AcceptedWhileRunning == [][AcceptsQuestion => room.is_game_running]_vars

\* the second clause alone
C34_TicketImpliesRunning == is_some(room.round_ticket) => room.is_game_running

\* the third clause alone
C34_QuestionImpliesRunning == is_some(room.current_question) => room.is_game_running

----------------------------------------------------------------------------
(* C35 *)

\* the ids of the pending entries of a kind
EntriesOf(kind) == {id \in DOMAIN room.pending : room.pending[id].kind = kind}

\* at most one Question entry and at most one Round entry
C35_OnePerKind ==
    /\ Cardinality(EntriesOf("Question")) <= 1
    /\ Cardinality(EntriesOf("Round")) <= 1

\* never a Question entry and a Round entry at once
C35_NotBothKinds == EntriesOf("Question") = {} \/ EntriesOf("Round") = {}

\* a Round entry is pending exactly when round_ticket holds its id
C35_RoundEntryIsTicket ==
    \A id \in 1..StopTickets : id \in EntriesOf("Round") <=> room.round_ticket = Some(id)

\* C35: the tracker holds at most one Question entry and at most one Round
\* entry, never both at once, and a Round entry is in the tracker exactly
\* when round_ticket holds its id.
C35_TrackerShape ==
    /\ C35_OnePerKind
    /\ C35_NotBothKinds
    /\ C35_RoundEntryIsTicket

----------------------------------------------------------------------------
(* C36 *)

\* a round has been started and its Round ticket is held
RoundStarted == InRound(room) /\ is_some(room.round_ticket)

\* the handler just run is the Timeout of another ticket than the round's
StaleTimeout ==
    /\ trigger'.actor = "Room"
    /\ trigger'.op = "Timeout"
    /\ room.round_ticket # Some(trigger'.corr)

\* the three ways a round may end: the answer that completes the answers,
\* the Timeout of the round's own ticket, the admin's StopGame
EndsByAnswerTimerOrStop ==
    \/ /\ trigger'.op = "SendAnswerRequest"
       /\ Len(room.current_answers) + 1 = Cardinality(DOMAIN room.clients)
    \/ /\ trigger'.op = "Timeout"
       /\ room.round_ticket = Some(trigger'.corr)
    \/ /\ trigger'.op = "StopGameRequest"
       /\ LET c == find_client(room, trigger'.session)
          IN is_some(c) /\ room.clients[c[1]].is_admin

\* the second clause alone: a stale Timeout neither ends the current round
\* nor clears its ticket
C36_StaleTimeoutIgnored ==
    [][(RoundStarted /\ StaleTimeout) =>
            ~RoundOver /\ room'.round_ticket = room.round_ticket]_vars

\* C36: a started round is ended only by the answer that completes the
\* answers, by the Timeout of its own Round ticket or by the admin's StopGame;
\* the Timeout of any other ticket neither ends the round nor clears
\* round_ticket.
C36_RoundEndedOnlyBy ==
    [][(RoundStarted /\ trigger'.actor = "Room") =>
        /\ RoundOver => EndsByAnswerTimerOrStop
        /\ StaleTimeout => (~RoundOver /\ room'.round_ticket = room.round_ticket)
    ]_vars

----------------------------------------------------------------------------
(* C37 *)
(* SpecAnswers: a round in a Room of up to AnswerSessions members, of whom *)
(* the first NumSessions send requests and the others only listen.         *)

AnswerSessions == 3

ASessions == 1..AnswerSessions

InitAnswers == InitWith(ASessions)

NextAnswers ==
    \/ DoAddClient(ASessions)
    \/ DoLinkDied(ASessions)
    \/ DoTimeout(MaxTickets)
    \/ DoStartGame(MaxTickets)
    \/ DoQuestionResponse(MaxTickets)
    \/ DoSendAnswer(MaxTickets)
    \/ Deliver

SpecAnswers == InitAnswers /\ [][NextAnswers]_vars

\* the SendAnswer just handled ran finish_round
AnswerFinishesRound ==
    /\ InRound(room)
    /\ trigger'.actor = "Room"
    /\ trigger'.op = "SendAnswerRequest"
    /\ RoundOver

\* every current member has answered in the round, the requester by the
\* answer just handled
AllMembersAnswered ==
    \A u \in DOMAIN room.clients :
        \/ u \in AnswerIds(room.current_answers)
        \/ find_client(room, trigger'.session) = Some(u)

\* the answers the round ended with, as roundEnded carries them
EndedAnswers ==
    LET i == CHOOSE i \in 1..Len(sent') : sent'[i].type = "OUT_NOTIF_roundEnded"
    IN sent'[i].body.answers

\* C37: SendAnswer runs finish_round only when every current member has
\* itself answered in the current round, and the answers that round ends with
\* hold no filled ("missing") answer of a current member.
C37_FinishWhenAllAnswered ==
    [][AnswerFinishesRound =>
        /\ AllMembersAnswered
        /\ \A i \in 1..Len(EndedAnswers) :
              EndedAnswers[i].id \in DOMAIN room.clients => EndedAnswers[i].answer # ""
    ]_vars

----------------------------------------------------------------------------
(* C38 *)

\* the Room has just handled the death of the admin's session while the game
\* awaited a question, and made the member of session s the new admin
AdminLeftAwaiting(s) ==
    /\ trigger.actor = "Room"
    /\ trigger.op = "on_link_died"
    /\ room.is_game_running
    /\ is_none(room.current_question)
    /\ \E i \in 1..Len(sent) :
          /\ sent[i].type = "OUT_NOTIF_adminMade"
          /\ sent[i].body = ClientUuid(s)

\* the member of session s is being sent an OUT_REQ_question
QuestionSentTo(s) ==
    \E i \in 1..Len(sent) : sent[i].type = "OUT_REQ_question" /\ sent[i].to = {s}

\* C38: when the admin's session dies while the game is running and awaits
\* a question and a member remains, then eventually the new admin is sent
\* OUT_REQ_question or the game is no longer running (or the new admin has
\* left as well, or the Room has stopped).
C38_NewAdminAsked ==
    \A s \in Sessions :
        AdminLeftAwaiting(s) ~>
            \/ QuestionSentTo(s)
            \/ ~room.is_game_running
            \/ s \notin MemberSessions(room)
            \/ room_status # "running"

\* the case happens: a state in which the admin has just left a game that
\* awaits a question
C38_AdminLeftReached == \A s \in Sessions : ~AdminLeftAwaiting(s)

----------------------------------------------------------------------------
(* C39 *)

\* the handler of actor a is suspended in a tell or ask to t, whose mailbox
\* is full
SuspendedAt(a, t) ==
    /\ mail.todo[a] # <<>>
    /\ ~(a = RoomActor /\ mail.awaiting)
    /\ Head(mail.todo[a]).to = t
    /\ Full(mail, t)

\* the Room cannot go on before t acts: it is suspended in a send to t, or
\* it waits for the Game's reply to its ask
RoomWaitsFor(t) ==
    \/ SuspendedAt(RoomActor, t)
    \/ t = GameActor /\ mail.awaiting

\* C39: in no reachable state is the Room blocked on the Game (in its ask
\* of GetClientsInfo) or on a Session (in a tell to its full mailbox) while
\* that Game or Session is itself suspended in a tell to the Room's full
\* mailbox.
C39_NoDeadlock ==
    \A t \in Actors \ {RoomActor} : ~(RoomWaitsFor(t) /\ SuspendedAt(t, RoomActor))

\* the Room and the Game block each other
C39_NoGameCycle == ~(RoomWaitsFor(GameActor) /\ SuspendedAt(GameActor, RoomActor))

\* the Room and a Session block each other
C39_NoSessionCycle ==
    \A s \in Sessions : ~(RoomWaitsFor(s) /\ SuspendedAt(s, RoomActor))

----------------------------------------------------------------------------
(* C40 *)

RoomRequests ==
    {"ClientListRequest", "SetGameSettingsRequest", "SendChatRequest",
     "StartGameRequest", "SendAnswerRequest", "StopGameRequest"}

\* the Session of a client that has been sent OUT_RESP_clientRegistered (its
\* SetRoom precedes that frame in the Session's mailbox) handles a room-scoped
\* request
RegisteredRequests ==
    /\ trigger'.actor = "Session"
    /\ trigger'.op \in RoomRequests
    /\ session[trigger'.session].room

\* the request is told to the Room, and not answered "no room"
Forwarded ==
    /\ Len(sent') = 1
    /\ sent'[1].to = {RoomActor}
    /\ sent'[1].type = trigger'.op
    /\ sent'[1].body.requester = trigger'.session

\* the Room handles a room-scoped request
RoomHandlesRequest == trigger'.actor = "Room" /\ trigger'.op \in RoomRequests

\* the first clause alone
C40_NeverNoRoom == [][RegisteredRequests => Forwarded]_vars

\* the second clause alone
C40_NeverUnknown ==
    [][RoomHandlesRequest =>
        /\ ~AddClientWaits(trigger'.session)
        /\ is_some(find_client(room, trigger'.session))]_vars

\* C40: a room-scoped request of a client that has been sent
\* OUT_RESP_clientRegistered is told to the Room and never answered "no
\* room", and the Room handles it after that client's AddClient, as the
\* request of a known member.
C40_RequestsReachRoom ==
    [][/\ RegisteredRequests => Forwarded
       /\ RoomHandlesRequest =>
            /\ ~AddClientWaits(trigger'.session)
            /\ is_some(find_client(room, trigger'.session))
    ]_vars

\* the first clause while the Room runs: holds
C40_NoRoomOnlyWhenStopped ==
    [][(RegisteredRequests /\ room_status = "running") => Forwarded]_vars
====
